---- MODULE Spec2Model ----
(***************************************************************************)
(* A model of the xlview fixture generators:                               *)
(*   scripts/generate_kitchen_sink_v2.py  (the font sweep, lines 586-627), *)
(*   scripts/generate_kitchen_sink_v3.py  (the workbook it builds),        *)
(*   scripts/generate_test_xlsx.py        (the builders, update_manifest,  *)
(*                                         main).                          *)
(* Text is modelled as a tuple of one-character strings, so that slicing,  *)
(* parsing and ordering are computed the way the code computes them.       *)
(* Python floats are IEEE-754 doubles; they are modelled exactly (see      *)
(* RoundDouble) because the contrast rule compares a float with 128.       *)
(***************************************************************************)
EXTENDS Integers, Sequences, FiniteSets, TLC

\* Python's None where a text is expected, and where a name is expected; the
\* absence of an exception.
None == <<"None">>
NoneS == "None"
NoExc == "NoExc"

Min(a, b) == IF a <= b THEN a ELSE b

RECURSIVE Pow2(_)
Pow2(n) == IF n = 0 THEN 1 ELSE 2 * Pow2(n - 1)

\* 2^j mod m without overflow.
RECURSIVE Pow2Mod(_, _)
Pow2Mod(j, m) == IF j = 0 THEN 1 % m ELSE (2 * Pow2Mod(j - 1, m)) % m

(***************************************************************************)
(* IEEE-754 double arithmetic.  A double x met in the luminance formula is *)
(* written x = t/1000 + e/(1000 * 2^56) with integers t (thousandths) and  *)
(* e (the accumulated rounding error, |e| < 2^22).  Products and sums are  *)
(* formed exactly on such pairs and then rounded to the nearest double,    *)
(* ties to even, as the hardware does.                                     *)
(***************************************************************************)
Dbl(t, e) == [t |-> t, e |-> e]

\* x >= 2^k for a positive x = (t, e).
GeqPow2(t, e, k) ==
    IF k >= 0
    THEN t > 1000 * Pow2(k) \/ (t = 1000 * Pow2(k) /\ e >= 0)
    ELSE t * Pow2(-k) > 1000 \/ (t * Pow2(-k) = 1000 /\ e >= 0)

\* The binary exponent of a positive x < 256, not below -4: every value of
\* the formula is a multiple of 2^-56, so below 2^-3 rounding is exact.
BinadeExp(t, e) ==
    IF \E k \in -4..7 : GeqPow2(t, e, k)
    THEN CHOOSE k \in -4..7 : GeqPow2(t, e, k) /\ (k = 7 \/ ~GeqPow2(t, e, k + 1))
    ELSE -4

\* The element of a one-element set.  The({F(v) : v \in {x}}) is F(x) with x
\* computed once, where F(x) alone would compute x at every use.
The(S) == CHOOSE v \in S : TRUE

\* Round a positive real (t, e) to the grid 2^-j.  q[1] is the remainder of
\* its numerator by the grid step q[3] = 1000 * 2^(56-j), q[2] the remainder
\* by twice the step (the parity of the quotient, which decides a tie).
RoundToGrid(t, e, j) ==
    The({Dbl(t, e - q[1] + (IF 2 * q[1] > q[3] \/ (2 * q[1] = q[3] /\ q[2] - q[1] = q[3])
                           THEN q[3] ELSE 0)) :
           q \in {<<(Pow2(56 - j) * (((t % 1000) * Pow2Mod(j, 1000)) % 1000) + e)
                       % (1000 * Pow2(56 - j)),
                   (Pow2(56 - j) * (((t % 2000) * Pow2Mod(j, 2000)) % 2000) + e)
                       % (2000 * Pow2(56 - j)),
                   1000 * Pow2(56 - j)>>}})

\* Round a positive real (t, e) to the double grid of its binade (53 bits).
RoundPos(t, e) == The({RoundToGrid(t, e, j) : j \in {Min(56, 52 - BinadeExp(t, e))}})

RoundPair(q) ==
    IF q[1] = 0 /\ q[2] = 0 THEN Dbl(0, 0)
    ELSE IF q[1] < 0 \/ (q[1] = 0 /\ q[2] < 0)
         THEN The({Dbl(0 - p.t, 0 - p.e) : p \in {RoundPos(0 - q[1], 0 - q[2])}})
         ELSE RoundPos(q[1], q[2])

\* Round a real to the nearest double, ties to even.
RoundDouble(t, e) == The({RoundPair(q) : q \in {<<t, e>>}})

\* The doubles the literals 0.299, 0.587 and 0.114 denote: the literal's
\* thousandths and its representation error in units of 1/(1000 * 2^56).
Err299 == -864
Err587 == -2432
Err114 == 296
W299 == Dbl(299, Err299)
W587 == Dbl(587, Err587)
W114 == Dbl(114, Err114)

\* float * int and float + float, each rounded once.
FMulInt(w, n) == The({RoundDouble(q[1].t * q[2], q[1].e * q[2]) : q \in {<<w, n>>}})
FAdd(x, y) == The({RoundDouble(q[1].t + q[2].t, q[1].e + q[2].e) : q \in {<<x, y>>}})

\* x < 128 and x > 128 on doubles.
FLess128(x) == x.t < 128000 \/ (x.t = 128000 /\ x.e < 0)
FGreater128(x) == x.t > 128000 \/ (x.t = 128000 /\ x.e > 0)

\* luminance = 0.299 * r + 0.587 * g + 0.114 * b, evaluated left to right.
Luminance(r, g, b) == FAdd(FAdd(FMulInt(W299, r), FMulInt(W587, g)), FMulInt(W114, b))

(***************************************************************************)
(* Text: a Python str is a tuple of one-character strings.                 *)
(***************************************************************************)
Digits == <<"0", "1", "2", "3", "4", "5", "6", "7", "8", "9">>
UpperHex == <<"A", "B", "C", "D", "E", "F">>
LowerHex == <<"a", "b", "c", "d", "e", "f">>
IndexOf(seq, c) == CHOOSE i \in 1..Len(seq) : seq[i] = c
Range(seq) == {seq[i] : i \in 1..Len(seq)}
HexDigits == Range(Digits) \cup Range(UpperHex) \cup Range(LowerHex)
SignChars == {"+", "-"}
\* The white space int() strips, of the characters a string of this module
\* can hold: space, tab, line feed, carriage return, form feed, and U+000B
\* (vertical tab), U+0085 (next line), U+00A0 (no-break space) and U+1680
\* (ogham space mark), which have no escape and stand in the set as they
\* are.  (Python strips U+2000-U+200A, U+2028, U+2029, U+202F, U+205F and
\* U+3000 too; the parser of this language refuses them in a string, so no
\* text of the module holds one.)
VerticalTab == ""
NextLine == ""
NoBreakSpace == " "
OghamSpace == " "
SpaceChars == {" ", "\t", "\n", "\r", "\f", VerticalTab, NextLine, NoBreakSpace, OghamSpace}

\* int() reads every Unicode decimal digit (category Nd) as its digit value.
\* The digits beyond ASCII that a string of this module can hold, one row
\* per script, each row from zero to nine: Extended Arabic-Indic, NKo,
\* Bengali, Gujarati, Tamil, Kannada, Sinhala Lith, Lao, Myanmar Shan, Khmer,
\* New Tai Lue, Tai Tham Hora, Tai Tham Tham, Sundanese, Saurashtra,
\* Javanese, Myanmar Tai Laing, Meetei Mayek.  (The parser refuses the other
\* 470 such digits in a string, so no text of the module holds one.)
WideDigits ==
    <<<<"۰", "۱", "۲", "۳", "۴", "۵", "۶", "۷", "۸", "۹">>,
      <<"߀", "߁", "߂", "߃", "߄", "߅", "߆", "߇", "߈", "߉">>,
      <<"০", "১", "২", "৩", "৪", "৫", "৬", "৭", "৮", "৯">>,
      <<"૦", "૧", "૨", "૩", "૪", "૫", "૬", "૭", "૮", "૯">>,
      <<"௦", "௧", "௨", "௩", "௪", "௫", "௬", "௭", "௮", "௯">>,
      <<"೦", "೧", "೨", "೩", "೪", "೫", "೬", "೭", "೮", "೯">>,
      <<"෦", "෧", "෨", "෩", "෪", "෫", "෬", "෭", "෮", "෯">>,
      <<"໐", "໑", "໒", "໓", "໔", "໕", "໖", "໗", "໘", "໙">>,
      <<"႐", "႑", "႒", "႓", "႔", "႕", "႖", "႗", "႘", "႙">>,
      <<"០", "១", "២", "៣", "៤", "៥", "៦", "៧", "៨", "៩">>,
      <<"᧐", "᧑", "᧒", "᧓", "᧔", "᧕", "᧖", "᧗", "᧘", "᧙">>,
      <<"᪀", "᪁", "᪂", "᪃", "᪄", "᪅", "᪆", "᪇", "᪈", "᪉">>,
      <<"᪐", "᪑", "᪒", "᪓", "᪔", "᪕", "᪖", "᪗", "᪘", "᪙">>,
      <<"᮰", "᮱", "᮲", "᮳", "᮴", "᮵", "᮶", "᮷", "᮸", "᮹">>,
      <<"꣐", "꣑", "꣒", "꣓", "꣔", "꣕", "꣖", "꣗", "꣘", "꣙">>,
      <<"꧐", "꧑", "꧒", "꧓", "꧔", "꧕", "꧖", "꧗", "꧘", "꧙">>,
      <<"꧰", "꧱", "꧲", "꧳", "꧴", "꧵", "꧶", "꧷", "꧸", "꧹">>,
      <<"꯰", "꯱", "꯲", "꯳", "꯴", "꯵", "꯶", "꯷", "꯸", "꯹">>>>
WideDigitChars == UNION {Range(WideDigits[i]) : i \in DOMAIN WideDigits}
\* The characters int(s, 16) reads as a digit.
IntDigits == HexDigits \cup WideDigitChars

HexVal(c) ==
    IF c \in Range(Digits) THEN IndexOf(Digits, c) - 1
    ELSE IF c \in Range(UpperHex) THEN IndexOf(UpperHex, c) + 9
    ELSE IF c \in Range(LowerHex) THEN IndexOf(LowerHex, c) + 9
    ELSE LET row == CHOOSE i \in DOMAIN WideDigits : c \in Range(WideDigits[i])
         IN  IndexOf(WideDigits[row], c) - 1

\* s[lo:hi] of Python, for 0 <= lo <= hi: the slice is clipped to the text.
Slice(s, lo, hi) ==
    IF lo >= Min(hi, Len(s)) THEN <<>> ELSE SubSeq(s, lo + 1, Min(hi, Len(s)))

\* s[:6] of Python.
FirstSix(s) == Slice(s, 0, 6)

\* s[-6:] of Python.
LastSix(s) == IF Len(s) <= 6 THEN s ELSE SubSeq(s, Len(s) - 5, Len(s))

\* int(s, 16) of Python for a text of at most two characters: the value, or
\* ValueError.  int() strips surrounding white space, accepts one sign and
\* reads the hexadecimal digits and every decimal digit; "0x" alone and an
\* underscore next to nothing are refused.
IntBase16(s) ==
    LET bad == [exc |-> "ValueError", val |-> 0]
        ok(v) == [exc |-> NoExc, val |-> v]
    IN  IF Len(s) = 1
        THEN IF s[1] \in IntDigits THEN ok(HexVal(s[1])) ELSE bad
        ELSE IF Len(s) = 2
        THEN IF s[1] \in IntDigits /\ s[2] \in IntDigits
                 THEN ok(16 * HexVal(s[1]) + HexVal(s[2]))
             ELSE IF s[1] = "-" /\ s[2] \in IntDigits THEN ok(0 - HexVal(s[2]))
             ELSE IF s[1] \in ({"+"} \cup SpaceChars) /\ s[2] \in IntDigits
                 THEN ok(HexVal(s[2]))
             ELSE IF s[1] \in IntDigits /\ s[2] \in SpaceChars THEN ok(HexVal(s[1]))
             ELSE bad
        ELSE bad

(***************************************************************************)
(* openpyxl values the scripts read and write.                             *)
(***************************************************************************)
\* Color(rgb=...): a six-digit value is stored with the alpha prefix "00".
ColorRgb(s) == IF Len(s) = 6 THEN <<"0", "0">> \o s ELSE s

\* The rgb of PatternFill().fgColor, the fill of a cell no fill was set on.
DefaultFillRgb == <<"0", "0", "0", "0", "0", "0", "0", "0">>

Black6 == <<"0", "0", "0", "0", "0", "0">>
White6 == <<"F", "F", "F", "F", "F", "F">>
white6 == <<"f", "f", "f", "f", "f", "f">>

\* A fill: kind "pattern" (has fgColor) or "gradient" (has none); isSet is
\* FALSE on a cell whose fill is the workbook's default fill.
\* ptype is the fill_type ("solid", a pattern name, or NoneS).
PatternFill(rgb, ptype) == [kind |-> "pattern", rgb |-> rgb, isSet |-> TRUE, ptype |-> ptype]
GradientFill == [kind |-> "gradient", rgb |-> None, isSet |-> TRUE, ptype |-> NoneS]
DefaultFill == [kind |-> "pattern", rgb |-> DefaultFillRgb, isSet |-> FALSE, ptype |-> NoneS]

\* Font(...): color is None, ThemeColor (a colour that has no rgb text) or
\* the rgb text; name, underline and vertAlign are a name or NoneS; size is
\* a number, 0 for None.
ThemeColor == <<"theme">>
\* Two colour values of a font object that is not openpyxl's own: reading
\* font.color fails, or font.color is an object that has no rgb.
ColorUnreadable == <<"no color">>
RgbUnreadable == <<"no rgb">>
Font(name, size, bold, italic, underline, strike, vertAlign, color) ==
    [name |-> name, size |-> size, bold |-> bold, italic |-> italic,
     underline |-> underline, strike |-> strike, vertAlign |-> vertAlign,
     color |-> color]

(***************************************************************************)
(* generate_kitchen_sink_v2.py: the font sweep.                            *)
(***************************************************************************)
white_bg_cells_NoHash == {White6, white6, None}
white_bg_cells == {<<"#">> \o White6, <<"#">> \o white6, White6, white6, None}

\* The fonts' colour texts the sweep takes for white.
WhiteFontRgbs == {White6 \o <<"F", "F">>, <<"0", "0">> \o White6, White6}

\* Python truth of fg.rgb: None and the empty text are false.
Truthy(rgb) == rgb # None /\ rgb # <<>>

\* Lines 602-604: the three channels, or the exception int() raises.
ParseChannels(rgb) ==
    The({IF q[1].exc # NoExc THEN [exc |-> q[1].exc, r |-> 0, g |-> 0, b |-> 0]
         ELSE IF q[2].exc # NoExc THEN [exc |-> q[2].exc, r |-> 0, g |-> 0, b |-> 0]
         ELSE IF q[3].exc # NoExc THEN [exc |-> q[3].exc, r |-> 0, g |-> 0, b |-> 0]
         ELSE [exc |-> NoExc, r |-> q[1].val, g |-> q[2].val, b |-> q[3].val] :
           q \in {<<IntBase16(Slice(rgb, 0, 2)), IntBase16(Slice(rgb, 2, 4)),
                    IntBase16(Slice(rgb, 4, 6))>>}})

\* The exceptions the inner and the outer try of the sweep catch.
InnerCaughtNoValueError == {"IndexError"}
InnerCaught == {"ValueError", "IndexError"}
OuterCaught == {"AttributeError"}

\* luminance < 128 of line 607.
IsDark(r, g, b) == FLess128(Luminance(r, g, b))

\* Lines 594-611: has_dark_bg for one cell's fill, whether the luminance
\* formula was evaluated, and the exception that escapes both try blocks.
Classify(fill) ==
    LET light == [dark |-> FALSE, lum |-> FALSE, exc |-> NoExc]
    IN  IF fill.kind # "pattern" THEN light
        ELSE IF ~(Truthy(fill.rgb) /\ fill.rgb \notin white_bg_cells) THEN light
        ELSE The({IF p.exc = NoExc
                  THEN [dark |-> IsDark(p.r, p.g, p.b), lum |-> TRUE, exc |-> NoExc]
                  ELSE IF p.exc \in InnerCaught \/ p.exc \in OuterCaught THEN light
                  ELSE [dark |-> FALSE, lum |-> FALSE, exc |-> p.exc] :
                    p \in {ParseChannels(IF Len(fill.rgb) >= 6 THEN LastSix(fill.rgb)
                                         ELSE fill.rgb)}})

\* Lines 615-617: the exception that reading current_font.color and
\* font_color.rgb raises, or NoExc.  The reads follow both try blocks.
FontColorRead(font) ==
    IF font.color \in {ColorUnreadable, RgbUnreadable} THEN "AttributeError" ELSE NoExc

\* Line 617 without its first disjunct: only a white font is replaced.
NeedsBlackWhiteOnly(font, dark) == font.color \in WhiteFontRgbs /\ ~dark

\* Line 617: the condition under which the cell's font is replaced.
NeedsBlack(font, dark) ==
    font.color = None \/ (font.color \in WhiteFontRgbs /\ ~dark)

\* A replacement that negates bold and passes no colour.
BoldToggledFontLike(font) ==
    Font(font.name, font.size, ~font.bold, font.italic, font.underline,
         font.strike, NoneS, None)

\* Lines 619-627: the replacement font.
BlackFontLike(font) ==
    Font(font.name, font.size, font.bold, font.italic, font.underline,
         font.strike, NoneS, ColorRgb(Black6))

(***************************************************************************)
(* generate_test_xlsx.py, create_colors_only: the theme-colour text choice.*)
(***************************************************************************)
\* luminance > 128 of line 385 (the same sum, int * float).
IsBright(r, g, b) == FGreater128(Luminance(r, g, b))

\* Lines 384-385: the font colour for a fill colour, or the exception.
ThemeTextColor(color) ==
    The({IF p.exc # NoExc THEN [exc |-> p.exc, color |-> None]
         ELSE [exc |-> NoExc,
               color |-> IF IsBright(p.r, p.g, p.b) THEN Black6 ELSE White6] :
           p \in {ParseChannels(color)}})

(***************************************************************************)
(* The workbook builders.  A builder is straight-line code over literal    *)
(* cells and loops over literal lists; it is modelled as the sequence of   *)
(* the statements it executes, each executed by one action.  Val(kind, s,   *)
(* n): a text s (in a loop of the parametric builders with the number n    *)
(* formatted into it), the text s repeated n times, an int n, a float, a   *)
(* bool, a date or a datetime written as str() prints it, a float drawn    *)
(* by uniform(0, n), or the date still to be drawn.                        *)
(***************************************************************************)
Val(kind, str, n) == [kind |-> kind, s |-> str, n |-> n, y |-> 0, m |-> 0, d |-> 0]
\* date(2020 + randint(0, 4), randint(1, 12), randint(1, 28)) before the draw.
RandomDate == Val("date", "", 0)
NoVal == Val("none", "", 0)
NoRange == <<0, 0, 0, 0>>
DefaultFont == Font("Calibri", 11, FALSE, FALSE, NoneS, FALSE, NoneS, ThemeColor)
\* Font(...) with the keywords the scripts use; the rest are defaults.
FontKw(size, bold, underline, color) ==
    Font(NoneS, size, bold, FALSE, underline, FALSE, NoneS, color)

Stmt(op, sheet, row, col, val, font, fill, fmt, rng, line) ==
    [op |-> op, sheet |-> sheet, row |-> row, col |-> col, val |-> val,
     font |-> font, fill |-> fill, fmt |-> fmt, rng |-> rng, line |-> line, name |-> ""]
SetValue(sheet, row, col, val, line) ==
    Stmt("value", sheet, row, col, val, DefaultFont, DefaultFill, "", NoRange, line)
SetFont(sheet, row, col, font, line) ==
    Stmt("font", sheet, row, col, NoVal, font, DefaultFill, "", NoRange, line)
SetFill(sheet, row, col, fill, line) ==
    Stmt("fill", sheet, row, col, NoVal, DefaultFont, fill, "", NoRange, line)
SetFormat(sheet, row, col, fmt, line) ==
    Stmt("format", sheet, row, col, NoVal, DefaultFont, DefaultFill, fmt, NoRange, line)
\* A merge that reaches one row and one column further.
MergeCellsWider(sheet, r1, c1, r2, c2, line) ==
    Stmt("merge", sheet, r1, c1, NoVal, DefaultFont, DefaultFill, "", <<r1, c1, r2 + 1, c2 + 1>>, line)
MergeCells(sheet, r1, c1, r2, c2, line) ==
    Stmt("merge", sheet, r1, c1, NoVal, DefaultFont, DefaultFill, "", <<r1, c1, r2, c2>>, line)

\* cell.border = Border(left=Side(style), right=..., top=..., bottom=...)
SetBorder(sheet, row, col, style, line) ==
    [Stmt("border", sheet, row, col, NoVal, DefaultFont, DefaultFill, "", NoRange, line)
        EXCEPT !.name = style]
\* ws.conditional_formatting.add(range, rule)
AddRule(sheet, r1, c1, r2, c2, kind, line) ==
    [Stmt("rule", sheet, r1, c1, NoVal, DefaultFont, DefaultFill, "", <<r1, c1, r2, c2>>, line)
        EXCEPT !.name = kind]
\* ws.add_chart(chart, anchor): the chart's class and the grouping set on it.
AddChart(sheet, class, grouping, row, col, line) ==
    [Stmt("chart", sheet, row, col, NoVal, DefaultFont, DefaultFill, grouping, NoRange, line)
        EXCEPT !.name = class]

\* wb.active with ws.title = title, or wb.create_sheet(title).
NewSheet(title, line) ==
    Stmt("sheet", title, 0, 0, NoVal, DefaultFont, DefaultFill, "", NoRange, line)
\* cell.hyperlink = "#Sheet!A1" or "#'Sheet Name'!A1" (a place in the
\* workbook, target is the sheet named) or a URL (target is "").
SetLink(sheet, row, col, target, line) ==
    [Stmt("link", sheet, row, col, NoVal, DefaultFont, DefaultFill, "", NoRange, line)
        EXCEPT !.name = target]

\* The statements F(lo), ..., F(hi) of a loop, in order.
RECURSIVE Loop(_, _, _)
Loop(F(_), lo, hi) == IF lo > hi THEN <<>> ELSE F(lo) \o Loop(F, lo + 1, hi)

Rgb4472C4 == <<"4", "4", "7", "2", "C", "4">>
Rgb70AD47 == <<"7", "0", "A", "D", "4", "7">>
RgbED7D31 == <<"E", "D", "7", "D", "3", "1">>
Rgb0563C1 == <<"0", "5", "6", "3", "C", "1">>
RgbFFFF00 == <<"F", "F", "F", "F", "0", "0">>
RgbE8E8E8 == <<"E", "8", "E", "8", "E", "8">>
RgbF2F2F2 == <<"F", "2", "F", "2", "F", "2">>

(***************************************************************************)
(* generate_kitchen_sink_v3.py, create_kitchen_sink_v3: every statement    *)
(* that makes a sheet, writes a value, a font, a fill, a border, a number  *)
(* format or a link, merges cells or adds a rule or a chart, in the order  *)
(* they run (loops are unrolled).  Of a border the style of its sides is   *)
(* kept, of a rule its kind, of a chart its class and grouping.            *)
(* Alignments, comments, images, data validations, row and column sizes,   *)
(* freeze panes and sheet states are not part of the state.  The two       *)
(* defined names that follow are the action DefineNames.                   *)
(***************************************************************************)
\* Lines 81-101: pattern_types (the names).
pattern_types ==
    <<"none", "solid", "mediumGray", "darkGray", "lightGray", "darkHorizontal", "darkVertical",
      "darkDown", "darkUp", "darkGrid", "darkTrellis", "lightHorizontal", "lightVertical",
      "lightDown", "lightUp", "lightGrid", "lightTrellis", "gray125", "gray0625">>

\* PatternFill(fill_type=pattern): openpyxl stores "none" as None.
FillType(pattern) == IF pattern = "none" THEN NoneS ELSE pattern

\* Lines 135-150: border_styles (the names).
border_styles ==
    <<"none", "thin", "medium", "dashed", "dotted", "thick", "double", "hair", "mediumDashed",
      "dashDot", "mediumDashDot", "dashDotDot", "mediumDashDotDot", "slantDashDot">>

\* Lines 73-119: sheet "Pattern Fills", the statements in the order they run.
V3PatternFillsSheet ==
    <<NewSheet("Pattern Fills", 73),
      SetValue("Pattern Fills", 1, 1, Val("text", "All 19 ECMA-376 Pattern Fill Types", 0), 76),
      SetFont("Pattern Fills", 1, 1, FontKw(14, TRUE, NoneS, ColorRgb(Black6)), 77),
      MergeCells("Pattern Fills", 1, 1, 1, 3, 78),
      SetValue("Pattern Fills", 3, 1, Val("text", "Pattern", 0), 103),
      SetValue("Pattern Fills", 3, 2, Val("text", "Sample", 0), 104),
      SetValue("Pattern Fills", 3, 3, Val("text", "Description", 0), 105),
      SetFont("Pattern Fills", 3, 1, FontKw(0, TRUE, NoneS, ColorRgb(Black6)), 106),
      SetFont("Pattern Fills", 3, 2, FontKw(0, TRUE, NoneS, ColorRgb(Black6)), 107),
      SetFont("Pattern Fills", 3, 3, FontKw(0, TRUE, NoneS, ColorRgb(Black6)), 108),
      SetValue("Pattern Fills", 4, 1, Val("text", "none", 0), 111),
      SetFont("Pattern Fills", 4, 1, FontKw(0, FALSE, NoneS, ColorRgb(Black6)), 112),
      SetFill("Pattern Fills", 4, 2, PatternFill(ColorRgb(Rgb4472C4), FillType("none")), 113),
      SetValue("Pattern Fills", 4, 3, Val("text", "No fill", 0), 118),
      SetFont("Pattern Fills", 4, 3, FontKw(0, FALSE, NoneS, ColorRgb(Black6)), 119),
      SetValue("Pattern Fills", 5, 1, Val("text", "solid", 0), 111),
      SetFont("Pattern Fills", 5, 1, FontKw(0, FALSE, NoneS, ColorRgb(Black6)), 112),
      SetFill("Pattern Fills", 5, 2, PatternFill(ColorRgb(Rgb4472C4), "solid"), 113),
      SetValue("Pattern Fills", 5, 3, Val("text", "Solid fill", 0), 118),
      SetFont("Pattern Fills", 5, 3, FontKw(0, FALSE, NoneS, ColorRgb(Black6)), 119),
      SetValue("Pattern Fills", 6, 1, Val("text", "mediumGray", 0), 111),
      SetFont("Pattern Fills", 6, 1, FontKw(0, FALSE, NoneS, ColorRgb(Black6)), 112),
      SetFill("Pattern Fills", 6, 2, PatternFill(ColorRgb(Rgb4472C4), "mediumGray"), 113),
      SetValue("Pattern Fills", 6, 3, Val("text", "Medium gray (50%)", 0), 118),
      SetFont("Pattern Fills", 6, 3, FontKw(0, FALSE, NoneS, ColorRgb(Black6)), 119),
      SetValue("Pattern Fills", 7, 1, Val("text", "darkGray", 0), 111),
      SetFont("Pattern Fills", 7, 1, FontKw(0, FALSE, NoneS, ColorRgb(Black6)), 112),
      SetFill("Pattern Fills", 7, 2, PatternFill(ColorRgb(Rgb4472C4), "darkGray"), 113),
      SetValue("Pattern Fills", 7, 3, Val("text", "Dark gray (75%)", 0), 118),
      SetFont("Pattern Fills", 7, 3, FontKw(0, FALSE, NoneS, ColorRgb(Black6)), 119),
      SetValue("Pattern Fills", 8, 1, Val("text", "lightGray", 0), 111),
      SetFont("Pattern Fills", 8, 1, FontKw(0, FALSE, NoneS, ColorRgb(Black6)), 112),
      SetFill("Pattern Fills", 8, 2, PatternFill(ColorRgb(Rgb4472C4), "lightGray"), 113),
      SetValue("Pattern Fills", 8, 3, Val("text", "Light gray (25%)", 0), 118),
      SetFont("Pattern Fills", 8, 3, FontKw(0, FALSE, NoneS, ColorRgb(Black6)), 119),
      SetValue("Pattern Fills", 9, 1, Val("text", "darkHorizontal", 0), 111),
      SetFont("Pattern Fills", 9, 1, FontKw(0, FALSE, NoneS, ColorRgb(Black6)), 112),
      SetFill("Pattern Fills", 9, 2, PatternFill(ColorRgb(Rgb4472C4), "darkHorizontal"), 113),
      SetValue("Pattern Fills", 9, 3, Val("text", "Dark horizontal lines", 0), 118),
      SetFont("Pattern Fills", 9, 3, FontKw(0, FALSE, NoneS, ColorRgb(Black6)), 119),
      SetValue("Pattern Fills", 10, 1, Val("text", "darkVertical", 0), 111),
      SetFont("Pattern Fills", 10, 1, FontKw(0, FALSE, NoneS, ColorRgb(Black6)), 112),
      SetFill("Pattern Fills", 10, 2, PatternFill(ColorRgb(Rgb4472C4), "darkVertical"), 113),
      SetValue("Pattern Fills", 10, 3, Val("text", "Dark vertical lines", 0), 118),
      SetFont("Pattern Fills", 10, 3, FontKw(0, FALSE, NoneS, ColorRgb(Black6)), 119),
      SetValue("Pattern Fills", 11, 1, Val("text", "darkDown", 0), 111),
      SetFont("Pattern Fills", 11, 1, FontKw(0, FALSE, NoneS, ColorRgb(Black6)), 112),
      SetFill("Pattern Fills", 11, 2, PatternFill(ColorRgb(Rgb4472C4), "darkDown"), 113),
      SetValue("Pattern Fills", 11, 3, Val("text", "Dark diagonal down", 0), 118),
      SetFont("Pattern Fills", 11, 3, FontKw(0, FALSE, NoneS, ColorRgb(Black6)), 119),
      SetValue("Pattern Fills", 12, 1, Val("text", "darkUp", 0), 111),
      SetFont("Pattern Fills", 12, 1, FontKw(0, FALSE, NoneS, ColorRgb(Black6)), 112),
      SetFill("Pattern Fills", 12, 2, PatternFill(ColorRgb(Rgb4472C4), "darkUp"), 113),
      SetValue("Pattern Fills", 12, 3, Val("text", "Dark diagonal up", 0), 118),
      SetFont("Pattern Fills", 12, 3, FontKw(0, FALSE, NoneS, ColorRgb(Black6)), 119),
      SetValue("Pattern Fills", 13, 1, Val("text", "darkGrid", 0), 111),
      SetFont("Pattern Fills", 13, 1, FontKw(0, FALSE, NoneS, ColorRgb(Black6)), 112),
      SetFill("Pattern Fills", 13, 2, PatternFill(ColorRgb(Rgb4472C4), "darkGrid"), 113),
      SetValue("Pattern Fills", 13, 3, Val("text", "Dark grid", 0), 118),
      SetFont("Pattern Fills", 13, 3, FontKw(0, FALSE, NoneS, ColorRgb(Black6)), 119),
      SetValue("Pattern Fills", 14, 1, Val("text", "darkTrellis", 0), 111),
      SetFont("Pattern Fills", 14, 1, FontKw(0, FALSE, NoneS, ColorRgb(Black6)), 112),
      SetFill("Pattern Fills", 14, 2, PatternFill(ColorRgb(Rgb4472C4), "darkTrellis"), 113),
      SetValue("Pattern Fills", 14, 3, Val("text", "Dark trellis", 0), 118),
      SetFont("Pattern Fills", 14, 3, FontKw(0, FALSE, NoneS, ColorRgb(Black6)), 119),
      SetValue("Pattern Fills", 15, 1, Val("text", "lightHorizontal", 0), 111),
      SetFont("Pattern Fills", 15, 1, FontKw(0, FALSE, NoneS, ColorRgb(Black6)), 112),
      SetFill("Pattern Fills", 15, 2, PatternFill(ColorRgb(Rgb4472C4), "lightHorizontal"), 113),
      SetValue("Pattern Fills", 15, 3, Val("text", "Light horizontal lines", 0), 118),
      SetFont("Pattern Fills", 15, 3, FontKw(0, FALSE, NoneS, ColorRgb(Black6)), 119),
      SetValue("Pattern Fills", 16, 1, Val("text", "lightVertical", 0), 111),
      SetFont("Pattern Fills", 16, 1, FontKw(0, FALSE, NoneS, ColorRgb(Black6)), 112),
      SetFill("Pattern Fills", 16, 2, PatternFill(ColorRgb(Rgb4472C4), "lightVertical"), 113),
      SetValue("Pattern Fills", 16, 3, Val("text", "Light vertical lines", 0), 118),
      SetFont("Pattern Fills", 16, 3, FontKw(0, FALSE, NoneS, ColorRgb(Black6)), 119),
      SetValue("Pattern Fills", 17, 1, Val("text", "lightDown", 0), 111),
      SetFont("Pattern Fills", 17, 1, FontKw(0, FALSE, NoneS, ColorRgb(Black6)), 112),
      SetFill("Pattern Fills", 17, 2, PatternFill(ColorRgb(Rgb4472C4), "lightDown"), 113),
      SetValue("Pattern Fills", 17, 3, Val("text", "Light diagonal down", 0), 118),
      SetFont("Pattern Fills", 17, 3, FontKw(0, FALSE, NoneS, ColorRgb(Black6)), 119),
      SetValue("Pattern Fills", 18, 1, Val("text", "lightUp", 0), 111),
      SetFont("Pattern Fills", 18, 1, FontKw(0, FALSE, NoneS, ColorRgb(Black6)), 112),
      SetFill("Pattern Fills", 18, 2, PatternFill(ColorRgb(Rgb4472C4), "lightUp"), 113),
      SetValue("Pattern Fills", 18, 3, Val("text", "Light diagonal up", 0), 118),
      SetFont("Pattern Fills", 18, 3, FontKw(0, FALSE, NoneS, ColorRgb(Black6)), 119),
      SetValue("Pattern Fills", 19, 1, Val("text", "lightGrid", 0), 111),
      SetFont("Pattern Fills", 19, 1, FontKw(0, FALSE, NoneS, ColorRgb(Black6)), 112),
      SetFill("Pattern Fills", 19, 2, PatternFill(ColorRgb(Rgb4472C4), "lightGrid"), 113),
      SetValue("Pattern Fills", 19, 3, Val("text", "Light grid", 0), 118),
      SetFont("Pattern Fills", 19, 3, FontKw(0, FALSE, NoneS, ColorRgb(Black6)), 119),
      SetValue("Pattern Fills", 20, 1, Val("text", "lightTrellis", 0), 111),
      SetFont("Pattern Fills", 20, 1, FontKw(0, FALSE, NoneS, ColorRgb(Black6)), 112),
      SetFill("Pattern Fills", 20, 2, PatternFill(ColorRgb(Rgb4472C4), "lightTrellis"), 113),
      SetValue("Pattern Fills", 20, 3, Val("text", "Light trellis", 0), 118),
      SetFont("Pattern Fills", 20, 3, FontKw(0, FALSE, NoneS, ColorRgb(Black6)), 119),
      SetValue("Pattern Fills", 21, 1, Val("text", "gray125", 0), 111),
      SetFont("Pattern Fills", 21, 1, FontKw(0, FALSE, NoneS, ColorRgb(Black6)), 112),
      SetFill("Pattern Fills", 21, 2, PatternFill(ColorRgb(Rgb4472C4), "gray125"), 113),
      SetValue("Pattern Fills", 21, 3, Val("text", "Gray 12.5%", 0), 118),
      SetFont("Pattern Fills", 21, 3, FontKw(0, FALSE, NoneS, ColorRgb(Black6)), 119),
      SetValue("Pattern Fills", 22, 1, Val("text", "gray0625", 0), 111),
      SetFont("Pattern Fills", 22, 1, FontKw(0, FALSE, NoneS, ColorRgb(Black6)), 112),
      SetFill("Pattern Fills", 22, 2, PatternFill(ColorRgb(Rgb4472C4), "gray0625"), 113),
      SetValue("Pattern Fills", 22, 3, Val("text", "Gray 6.25%", 0), 118),
      SetFont("Pattern Fills", 22, 3, FontKw(0, FALSE, NoneS, ColorRgb(Black6)), 119)>>

\* Lines 128-191: sheet "Border Styles", the statements in the order they run.
V3BorderStylesSheet ==
    <<NewSheet("Border Styles", 128),
      SetValue("Border Styles", 1, 1, Val("text", "All 13 ECMA-376 Border Styles", 0), 131),
      SetFont("Border Styles", 1, 1, FontKw(14, TRUE, NoneS, ColorRgb(Black6)), 132),
      MergeCells("Border Styles", 1, 1, 1, 3, 133),
      SetValue("Border Styles", 3, 1, Val("text", "Style", 0), 153),
      SetValue("Border Styles", 3, 2, Val("text", "Sample", 0), 154),
      SetValue("Border Styles", 3, 3, Val("text", "Description", 0), 155),
      SetFont("Border Styles", 3, 1, FontKw(0, TRUE, NoneS, ColorRgb(Black6)), 156),
      SetFont("Border Styles", 3, 2, FontKw(0, TRUE, NoneS, ColorRgb(Black6)), 157),
      SetFont("Border Styles", 3, 3, FontKw(0, TRUE, NoneS, ColorRgb(Black6)), 158),
      SetValue("Border Styles", 4, 1, Val("text", "none", 0), 161),
      SetFont("Border Styles", 4, 1, FontKw(0, FALSE, NoneS, ColorRgb(Black6)), 162),
      SetValue("Border Styles", 4, 2, Val("text", "Sample", 0), 171),
      SetFont("Border Styles", 4, 2, FontKw(0, FALSE, NoneS, ColorRgb(Black6)), 172),
      SetValue("Border Styles", 4, 3, Val("text", "No border", 0), 173),
      SetFont("Border Styles", 4, 3, FontKw(0, FALSE, NoneS, ColorRgb(Black6)), 174),
      SetValue("Border Styles", 5, 1, Val("text", "thin", 0), 161),
      SetFont("Border Styles", 5, 1, FontKw(0, FALSE, NoneS, ColorRgb(Black6)), 162),
      SetBorder("Border Styles", 5, 2, "thin", 170),
      SetValue("Border Styles", 5, 2, Val("text", "Sample", 0), 171),
      SetFont("Border Styles", 5, 2, FontKw(0, FALSE, NoneS, ColorRgb(Black6)), 172),
      SetValue("Border Styles", 5, 3, Val("text", "Thin", 0), 173),
      SetFont("Border Styles", 5, 3, FontKw(0, FALSE, NoneS, ColorRgb(Black6)), 174),
      SetValue("Border Styles", 6, 1, Val("text", "medium", 0), 161),
      SetFont("Border Styles", 6, 1, FontKw(0, FALSE, NoneS, ColorRgb(Black6)), 162),
      SetBorder("Border Styles", 6, 2, "medium", 170),
      SetValue("Border Styles", 6, 2, Val("text", "Sample", 0), 171),
      SetFont("Border Styles", 6, 2, FontKw(0, FALSE, NoneS, ColorRgb(Black6)), 172),
      SetValue("Border Styles", 6, 3, Val("text", "Medium", 0), 173),
      SetFont("Border Styles", 6, 3, FontKw(0, FALSE, NoneS, ColorRgb(Black6)), 174),
      SetValue("Border Styles", 7, 1, Val("text", "dashed", 0), 161),
      SetFont("Border Styles", 7, 1, FontKw(0, FALSE, NoneS, ColorRgb(Black6)), 162),
      SetBorder("Border Styles", 7, 2, "dashed", 170),
      SetValue("Border Styles", 7, 2, Val("text", "Sample", 0), 171),
      SetFont("Border Styles", 7, 2, FontKw(0, FALSE, NoneS, ColorRgb(Black6)), 172),
      SetValue("Border Styles", 7, 3, Val("text", "Dashed", 0), 173),
      SetFont("Border Styles", 7, 3, FontKw(0, FALSE, NoneS, ColorRgb(Black6)), 174),
      SetValue("Border Styles", 8, 1, Val("text", "dotted", 0), 161),
      SetFont("Border Styles", 8, 1, FontKw(0, FALSE, NoneS, ColorRgb(Black6)), 162),
      SetBorder("Border Styles", 8, 2, "dotted", 170),
      SetValue("Border Styles", 8, 2, Val("text", "Sample", 0), 171),
      SetFont("Border Styles", 8, 2, FontKw(0, FALSE, NoneS, ColorRgb(Black6)), 172),
      SetValue("Border Styles", 8, 3, Val("text", "Dotted", 0), 173),
      SetFont("Border Styles", 8, 3, FontKw(0, FALSE, NoneS, ColorRgb(Black6)), 174),
      SetValue("Border Styles", 9, 1, Val("text", "thick", 0), 161),
      SetFont("Border Styles", 9, 1, FontKw(0, FALSE, NoneS, ColorRgb(Black6)), 162),
      SetBorder("Border Styles", 9, 2, "thick", 170),
      SetValue("Border Styles", 9, 2, Val("text", "Sample", 0), 171),
      SetFont("Border Styles", 9, 2, FontKw(0, FALSE, NoneS, ColorRgb(Black6)), 172),
      SetValue("Border Styles", 9, 3, Val("text", "Thick", 0), 173),
      SetFont("Border Styles", 9, 3, FontKw(0, FALSE, NoneS, ColorRgb(Black6)), 174),
      SetValue("Border Styles", 10, 1, Val("text", "double", 0), 161),
      SetFont("Border Styles", 10, 1, FontKw(0, FALSE, NoneS, ColorRgb(Black6)), 162),
      SetBorder("Border Styles", 10, 2, "double", 170),
      SetValue("Border Styles", 10, 2, Val("text", "Sample", 0), 171),
      SetFont("Border Styles", 10, 2, FontKw(0, FALSE, NoneS, ColorRgb(Black6)), 172),
      SetValue("Border Styles", 10, 3, Val("text", "Double", 0), 173),
      SetFont("Border Styles", 10, 3, FontKw(0, FALSE, NoneS, ColorRgb(Black6)), 174),
      SetValue("Border Styles", 11, 1, Val("text", "hair", 0), 161),
      SetFont("Border Styles", 11, 1, FontKw(0, FALSE, NoneS, ColorRgb(Black6)), 162),
      SetBorder("Border Styles", 11, 2, "hair", 170),
      SetValue("Border Styles", 11, 2, Val("text", "Sample", 0), 171),
      SetFont("Border Styles", 11, 2, FontKw(0, FALSE, NoneS, ColorRgb(Black6)), 172),
      SetValue("Border Styles", 11, 3, Val("text", "Hair (very thin)", 0), 173),
      SetFont("Border Styles", 11, 3, FontKw(0, FALSE, NoneS, ColorRgb(Black6)), 174),
      SetValue("Border Styles", 12, 1, Val("text", "mediumDashed", 0), 161),
      SetFont("Border Styles", 12, 1, FontKw(0, FALSE, NoneS, ColorRgb(Black6)), 162),
      SetBorder("Border Styles", 12, 2, "mediumDashed", 170),
      SetValue("Border Styles", 12, 2, Val("text", "Sample", 0), 171),
      SetFont("Border Styles", 12, 2, FontKw(0, FALSE, NoneS, ColorRgb(Black6)), 172),
      SetValue("Border Styles", 12, 3, Val("text", "Medium dashed", 0), 173),
      SetFont("Border Styles", 12, 3, FontKw(0, FALSE, NoneS, ColorRgb(Black6)), 174),
      SetValue("Border Styles", 13, 1, Val("text", "dashDot", 0), 161),
      SetFont("Border Styles", 13, 1, FontKw(0, FALSE, NoneS, ColorRgb(Black6)), 162),
      SetBorder("Border Styles", 13, 2, "dashDot", 170),
      SetValue("Border Styles", 13, 2, Val("text", "Sample", 0), 171),
      SetFont("Border Styles", 13, 2, FontKw(0, FALSE, NoneS, ColorRgb(Black6)), 172),
      SetValue("Border Styles", 13, 3, Val("text", "Dash dot", 0), 173),
      SetFont("Border Styles", 13, 3, FontKw(0, FALSE, NoneS, ColorRgb(Black6)), 174),
      SetValue("Border Styles", 14, 1, Val("text", "mediumDashDot", 0), 161),
      SetFont("Border Styles", 14, 1, FontKw(0, FALSE, NoneS, ColorRgb(Black6)), 162),
      SetBorder("Border Styles", 14, 2, "mediumDashDot", 170),
      SetValue("Border Styles", 14, 2, Val("text", "Sample", 0), 171),
      SetFont("Border Styles", 14, 2, FontKw(0, FALSE, NoneS, ColorRgb(Black6)), 172),
      SetValue("Border Styles", 14, 3, Val("text", "Medium dash dot", 0), 173),
      SetFont("Border Styles", 14, 3, FontKw(0, FALSE, NoneS, ColorRgb(Black6)), 174),
      SetValue("Border Styles", 15, 1, Val("text", "dashDotDot", 0), 161),
      SetFont("Border Styles", 15, 1, FontKw(0, FALSE, NoneS, ColorRgb(Black6)), 162),
      SetBorder("Border Styles", 15, 2, "dashDotDot", 170),
      SetValue("Border Styles", 15, 2, Val("text", "Sample", 0), 171),
      SetFont("Border Styles", 15, 2, FontKw(0, FALSE, NoneS, ColorRgb(Black6)), 172),
      SetValue("Border Styles", 15, 3, Val("text", "Dash dot dot", 0), 173),
      SetFont("Border Styles", 15, 3, FontKw(0, FALSE, NoneS, ColorRgb(Black6)), 174),
      SetValue("Border Styles", 16, 1, Val("text", "mediumDashDotDot", 0), 161),
      SetFont("Border Styles", 16, 1, FontKw(0, FALSE, NoneS, ColorRgb(Black6)), 162),
      SetBorder("Border Styles", 16, 2, "mediumDashDotDot", 170),
      SetValue("Border Styles", 16, 2, Val("text", "Sample", 0), 171),
      SetFont("Border Styles", 16, 2, FontKw(0, FALSE, NoneS, ColorRgb(Black6)), 172),
      SetValue("Border Styles", 16, 3, Val("text", "Medium dash dot dot", 0), 173),
      SetFont("Border Styles", 16, 3, FontKw(0, FALSE, NoneS, ColorRgb(Black6)), 174),
      SetValue("Border Styles", 17, 1, Val("text", "slantDashDot", 0), 161),
      SetFont("Border Styles", 17, 1, FontKw(0, FALSE, NoneS, ColorRgb(Black6)), 162),
      SetBorder("Border Styles", 17, 2, "slantDashDot", 170),
      SetValue("Border Styles", 17, 2, Val("text", "Sample", 0), 171),
      SetFont("Border Styles", 17, 2, FontKw(0, FALSE, NoneS, ColorRgb(Black6)), 172),
      SetValue("Border Styles", 17, 3, Val("text", "Slant dash dot", 0), 173),
      SetFont("Border Styles", 17, 3, FontKw(0, FALSE, NoneS, ColorRgb(Black6)), 174),
      SetValue("Border Styles", 20, 1, Val("text", "Colored Borders", 0), 177),
      SetFont("Border Styles", 20, 1, FontKw(0, TRUE, NoneS, ColorRgb(Black6)), 178),
      SetValue("Border Styles", 21, 1, Val("text", "Red", 0), 182),
      SetFont("Border Styles", 21, 1, FontKw(0, FALSE, NoneS, ColorRgb(Black6)), 183),
      SetBorder("Border Styles", 21, 2, "thick", 184),
      SetValue("Border Styles", 21, 2, Val("text", "Color", 0), 190),
      SetFont("Border Styles", 21, 2, FontKw(0, FALSE, NoneS, ColorRgb(Black6)), 191),
      SetValue("Border Styles", 22, 1, Val("text", "Green", 0), 182),
      SetFont("Border Styles", 22, 1, FontKw(0, FALSE, NoneS, ColorRgb(Black6)), 183),
      SetBorder("Border Styles", 22, 2, "thick", 184),
      SetValue("Border Styles", 22, 2, Val("text", "Color", 0), 190),
      SetFont("Border Styles", 22, 2, FontKw(0, FALSE, NoneS, ColorRgb(Black6)), 191),
      SetValue("Border Styles", 23, 1, Val("text", "Blue", 0), 182),
      SetFont("Border Styles", 23, 1, FontKw(0, FALSE, NoneS, ColorRgb(Black6)), 183),
      SetBorder("Border Styles", 23, 2, "thick", 184),
      SetValue("Border Styles", 23, 2, Val("text", "Color", 0), 190),
      SetFont("Border Styles", 23, 2, FontKw(0, FALSE, NoneS, ColorRgb(Black6)), 191),
      SetValue("Border Styles", 24, 1, Val("text", "Orange", 0), 182),
      SetFont("Border Styles", 24, 1, FontKw(0, FALSE, NoneS, ColorRgb(Black6)), 183),
      SetBorder("Border Styles", 24, 2, "thick", 184),
      SetValue("Border Styles", 24, 2, Val("text", "Color", 0), 190),
      SetFont("Border Styles", 24, 2, FontKw(0, FALSE, NoneS, ColorRgb(Black6)), 191)>>

\* Lines 200-353: sheet "Conditional Formatting", the statements in the order they run.
V3FormattingSheet ==
    <<NewSheet("Conditional Formatting", 200),
      SetValue("Conditional Formatting", 1, 1, Val("text", "All Conditional Formatting Types", 0), 203),
      SetFont("Conditional Formatting", 1, 1, FontKw(14, TRUE, NoneS, ColorRgb(Black6)), 204),
      MergeCells("Conditional Formatting", 1, 1, 1, 7, 205),
      SetValue("Conditional Formatting", 3, 1, Val("text", "2-Color Scale", 0), 210),
      SetFont("Conditional Formatting", 3, 1, FontKw(0, TRUE, NoneS, ColorRgb(Black6)), 211),
      SetValue("Conditional Formatting", 4, 1, Val("int", "", 10), 213),
      SetValue("Conditional Formatting", 5, 1, Val("int", "", 30), 213),
      SetValue("Conditional Formatting", 6, 1, Val("int", "", 50), 213),
      SetValue("Conditional Formatting", 7, 1, Val("int", "", 70), 213),
      SetValue("Conditional Formatting", 8, 1, Val("int", "", 90), 213),
      AddRule("Conditional Formatting", 4, 1, 8, 1, "colorScale2", 214),
      SetValue("Conditional Formatting", 10, 1, Val("text", "3-Color Scale", 0), 224),
      SetFont("Conditional Formatting", 10, 1, FontKw(0, TRUE, NoneS, ColorRgb(Black6)), 225),
      SetValue("Conditional Formatting", 11, 1, Val("int", "", 0), 227),
      SetValue("Conditional Formatting", 12, 1, Val("int", "", 25), 227),
      SetValue("Conditional Formatting", 13, 1, Val("int", "", 50), 227),
      SetValue("Conditional Formatting", 14, 1, Val("int", "", 75), 227),
      SetValue("Conditional Formatting", 15, 1, Val("int", "", 100), 227),
      AddRule("Conditional Formatting", 11, 1, 15, 1, "colorScale3", 228),
      SetValue("Conditional Formatting", 3, 2, Val("text", "Data Bars", 0), 239),
      SetFont("Conditional Formatting", 3, 2, FontKw(0, TRUE, NoneS, ColorRgb(Black6)), 240),
      SetValue("Conditional Formatting", 4, 2, Val("int", "", 20), 242),
      SetValue("Conditional Formatting", 5, 2, Val("int", "", 40), 242),
      SetValue("Conditional Formatting", 6, 2, Val("int", "", 60), 242),
      SetValue("Conditional Formatting", 7, 2, Val("int", "", 80), 242),
      SetValue("Conditional Formatting", 8, 2, Val("int", "", 100), 242),
      AddRule("Conditional Formatting", 4, 2, 8, 2, "dataBar", 243),
      SetValue("Conditional Formatting", 10, 2, Val("text", "Gradient Data Bars", 0), 253),
      SetFont("Conditional Formatting", 10, 2, FontKw(0, TRUE, NoneS, ColorRgb(Black6)), 254),
      SetValue("Conditional Formatting", 11, 2, Val("int", "", 15), 256),
      SetValue("Conditional Formatting", 12, 2, Val("int", "", 45), 256),
      SetValue("Conditional Formatting", 13, 2, Val("int", "", 75), 256),
      SetValue("Conditional Formatting", 14, 2, Val("int", "", 95), 256),
      SetValue("Conditional Formatting", 15, 2, Val("int", "", 35), 256),
      AddRule("Conditional Formatting", 11, 2, 15, 2, "dataBar", 257),
      SetValue("Conditional Formatting", 3, 3, Val("text", "3 Arrows", 0), 267),
      SetFont("Conditional Formatting", 3, 3, FontKw(0, TRUE, NoneS, ColorRgb(Black6)), 268),
      SetValue("Conditional Formatting", 4, 3, Val("int", "", 10), 270),
      SetValue("Conditional Formatting", 5, 3, Val("int", "", 40), 270),
      SetValue("Conditional Formatting", 6, 3, Val("int", "", 70), 270),
      SetValue("Conditional Formatting", 7, 3, Val("int", "", 30), 270),
      SetValue("Conditional Formatting", 8, 3, Val("int", "", 90), 270),
      AddRule("Conditional Formatting", 4, 3, 8, 3, "iconSet 3Arrows", 271),
      SetValue("Conditional Formatting", 3, 4, Val("text", "3 Traffic Lights", 0), 277),
      SetFont("Conditional Formatting", 3, 4, FontKw(0, TRUE, NoneS, ColorRgb(Black6)), 278),
      SetValue("Conditional Formatting", 4, 4, Val("int", "", 1), 280),
      SetValue("Conditional Formatting", 5, 4, Val("int", "", 2), 280),
      SetValue("Conditional Formatting", 6, 4, Val("int", "", 3), 280),
      SetValue("Conditional Formatting", 7, 4, Val("int", "", 2), 280),
      SetValue("Conditional Formatting", 8, 4, Val("int", "", 1), 280),
      AddRule("Conditional Formatting", 4, 4, 8, 4, "iconSet 3TrafficLights1", 281),
      SetValue("Conditional Formatting", 3, 5, Val("text", "4 Arrows", 0), 287),
      SetFont("Conditional Formatting", 3, 5, FontKw(0, TRUE, NoneS, ColorRgb(Black6)), 288),
      SetValue("Conditional Formatting", 4, 5, Val("int", "", 15), 290),
      SetValue("Conditional Formatting", 5, 5, Val("int", "", 35), 290),
      SetValue("Conditional Formatting", 6, 5, Val("int", "", 65), 290),
      SetValue("Conditional Formatting", 7, 5, Val("int", "", 85), 290),
      SetValue("Conditional Formatting", 8, 5, Val("int", "", 50), 290),
      AddRule("Conditional Formatting", 4, 5, 8, 5, "iconSet 4Arrows", 291),
      SetValue("Conditional Formatting", 3, 6, Val("text", "5 Ratings", 0), 297),
      SetFont("Conditional Formatting", 3, 6, FontKw(0, TRUE, NoneS, ColorRgb(Black6)), 298),
      SetValue("Conditional Formatting", 4, 6, Val("int", "", 1), 300),
      SetValue("Conditional Formatting", 5, 6, Val("int", "", 2), 300),
      SetValue("Conditional Formatting", 6, 6, Val("int", "", 3), 300),
      SetValue("Conditional Formatting", 7, 6, Val("int", "", 4), 300),
      SetValue("Conditional Formatting", 8, 6, Val("int", "", 5), 300),
      AddRule("Conditional Formatting", 4, 6, 8, 6, "iconSet 5Rating", 301),
      SetValue("Conditional Formatting", 3, 7, Val("text", "Cell Is Rules", 0), 307),
      SetFont("Conditional Formatting", 3, 7, FontKw(0, TRUE, NoneS, ColorRgb(Black6)), 308),
      SetValue("Conditional Formatting", 4, 7, Val("int", "", 10), 310),
      SetValue("Conditional Formatting", 5, 7, Val("int", "", 40), 310),
      SetValue("Conditional Formatting", 6, 7, Val("int", "", 60), 310),
      SetValue("Conditional Formatting", 7, 7, Val("int", "", 25), 310),
      SetValue("Conditional Formatting", 8, 7, Val("int", "", 80), 310),
      AddRule("Conditional Formatting", 4, 7, 8, 7, "cellIs greaterThan", 313),
      AddRule("Conditional Formatting", 4, 7, 8, 7, "cellIs lessThan", 322),
      SetValue("Conditional Formatting", 17, 1, Val("text", "More Cell Is Operators", 0), 331),
      SetFont("Conditional Formatting", 17, 1, FontKw(0, TRUE, NoneS, ColorRgb(Black6)), 332),
      MergeCells("Conditional Formatting", 17, 1, 17, 5, 333),
      SetValue("Conditional Formatting", 18, 1, Val("text", "Equal to 50", 0), 336),
      SetFont("Conditional Formatting", 18, 1, FontKw(0, FALSE, NoneS, ColorRgb(Black6)), 337),
      SetValue("Conditional Formatting", 19, 1, Val("int", "", 30), 339),
      SetValue("Conditional Formatting", 20, 1, Val("int", "", 50), 339),
      SetValue("Conditional Formatting", 21, 1, Val("int", "", 50), 339),
      SetValue("Conditional Formatting", 22, 1, Val("int", "", 70), 339),
      SetValue("Conditional Formatting", 23, 1, Val("int", "", 50), 339),
      AddRule("Conditional Formatting", 19, 1, 23, 1, "cellIs equal", 340),
      SetValue("Conditional Formatting", 18, 2, Val("text", "Between 30-70", 0), 349),
      SetFont("Conditional Formatting", 18, 2, FontKw(0, FALSE, NoneS, ColorRgb(Black6)), 350),
      SetValue("Conditional Formatting", 19, 2, Val("int", "", 20), 352),
      SetValue("Conditional Formatting", 20, 2, Val("int", "", 40), 352),
      SetValue("Conditional Formatting", 21, 2, Val("int", "", 60), 352),
      SetValue("Conditional Formatting", 22, 2, Val("int", "", 80), 352),
      SetValue("Conditional Formatting", 23, 2, Val("int", "", 35), 352),
      AddRule("Conditional Formatting", 19, 2, 23, 2, "cellIs between", 353)>>

\* Lines 364-469: sheet "Charts", the statements in the order they run.
V3ChartsSheet ==
    <<NewSheet("Charts", 364),
      SetValue("Charts", 1, 1, Val("text", "Category", 0), 368),
      SetValue("Charts", 1, 2, Val("text", "Series 1", 0), 369),
      SetValue("Charts", 1, 3, Val("text", "Series 2", 0), 370),
      SetValue("Charts", 1, 4, Val("text", "Series 3", 0), 371),
      SetValue("Charts", 2, 1, Val("text", "Q1", 0), 379),
      SetValue("Charts", 2, 2, Val("int", "", 10), 380),
      SetValue("Charts", 2, 3, Val("int", "", 20), 381),
      SetValue("Charts", 2, 4, Val("int", "", 15), 382),
      SetValue("Charts", 3, 1, Val("text", "Q2", 0), 379),
      SetValue("Charts", 3, 2, Val("int", "", 25), 380),
      SetValue("Charts", 3, 3, Val("int", "", 15), 381),
      SetValue("Charts", 3, 4, Val("int", "", 30), 382),
      SetValue("Charts", 4, 1, Val("text", "Q3", 0), 379),
      SetValue("Charts", 4, 2, Val("int", "", 15), 380),
      SetValue("Charts", 4, 3, Val("int", "", 25), 381),
      SetValue("Charts", 4, 4, Val("int", "", 20), 382),
      SetValue("Charts", 5, 1, Val("text", "Q4", 0), 379),
      SetValue("Charts", 5, 2, Val("int", "", 30), 380),
      SetValue("Charts", 5, 3, Val("int", "", 20), 381),
      SetValue("Charts", 5, 4, Val("int", "", 25), 382),
      SetFont("Charts", 1, 1, FontKw(0, TRUE, NoneS, ColorRgb(White6)), 385),
      SetFill("Charts", 1, 1, PatternFill(ColorRgb(Rgb4472C4), "solid"), 386),
      SetFont("Charts", 1, 2, FontKw(0, TRUE, NoneS, ColorRgb(White6)), 385),
      SetFill("Charts", 1, 2, PatternFill(ColorRgb(Rgb4472C4), "solid"), 386),
      SetFont("Charts", 1, 3, FontKw(0, TRUE, NoneS, ColorRgb(White6)), 385),
      SetFill("Charts", 1, 3, PatternFill(ColorRgb(Rgb4472C4), "solid"), 386),
      SetFont("Charts", 1, 4, FontKw(0, TRUE, NoneS, ColorRgb(White6)), 385),
      SetFill("Charts", 1, 4, PatternFill(ColorRgb(Rgb4472C4), "solid"), 386),
      AddChart("Charts", "BarChart", "", 2, 6, 398),
      AddChart("Charts", "BarChart", "stacked", 2, 16, 407),
      AddChart("Charts", "LineChart", "", 17, 6, 414),
      AddChart("Charts", "AreaChart", "", 17, 16, 421),
      SetValue("Charts", 1, 7, Val("text", "Product", 0), 424),
      SetValue("Charts", 1, 8, Val("text", "Sales", 0), 425),
      SetValue("Charts", 2, 7, Val("text", "Widgets", 0), 428),
      SetValue("Charts", 2, 8, Val("int", "", 35), 429),
      SetValue("Charts", 3, 7, Val("text", "Gadgets", 0), 428),
      SetValue("Charts", 3, 8, Val("int", "", 25), 429),
      SetValue("Charts", 4, 7, Val("text", "Gizmos", 0), 428),
      SetValue("Charts", 4, 8, Val("int", "", 20), 429),
      SetValue("Charts", 5, 7, Val("text", "Things", 0), 428),
      SetValue("Charts", 5, 8, Val("int", "", 20), 429),
      AddChart("Charts", "PieChart", "", 32, 6, 438),
      AddChart("Charts", "DoughnutChart", "", 32, 16, 445),
      SetValue("Charts", 1, 10, Val("text", "X", 0), 448),
      SetValue("Charts", 1, 11, Val("text", "Y", 0), 449),
      SetValue("Charts", 2, 10, Val("int", "", 1), 452),
      SetValue("Charts", 2, 11, Val("int", "", 2), 453),
      SetValue("Charts", 3, 10, Val("int", "", 2), 452),
      SetValue("Charts", 3, 11, Val("int", "", 5), 453),
      SetValue("Charts", 4, 10, Val("int", "", 3), 452),
      SetValue("Charts", 4, 11, Val("int", "", 3), 453),
      SetValue("Charts", 5, 10, Val("int", "", 4), 452),
      SetValue("Charts", 5, 11, Val("int", "", 7), 453),
      SetValue("Charts", 6, 10, Val("int", "", 5), 452),
      SetValue("Charts", 6, 11, Val("int", "", 4), 453),
      AddChart("Charts", "ScatterChart", "", 47, 6, 462),
      AddChart("Charts", "RadarChart", "", 47, 16, 469)>>

\* Lines 474-568: sheet "Data Validation", the statements in the order they run.
V3ValidationSheet ==
    <<NewSheet("Data Validation", 474),
      SetValue("Data Validation", 1, 1, Val("text", "All Data Validation Types", 0), 477),
      SetFont("Data Validation", 1, 1, FontKw(14, TRUE, NoneS, ColorRgb(Black6)), 478),
      MergeCells("Data Validation", 1, 1, 1, 3, 479),
      SetValue("Data Validation", 3, 1, Val("text", "List (dropdown):", 0), 482),
      SetFont("Data Validation", 3, 1, FontKw(0, FALSE, NoneS, ColorRgb(Black6)), 483),
      SetValue("Data Validation", 3, 2, Val("text", "Option A", 0), 492),
      SetValue("Data Validation", 5, 1, Val("text", "Whole number (1-100):", 0), 495),
      SetFont("Data Validation", 5, 1, FontKw(0, FALSE, NoneS, ColorRgb(Black6)), 496),
      SetValue("Data Validation", 5, 2, Val("int", "", 50), 507),
      SetValue("Data Validation", 7, 1, Val("text", "Decimal (0.0-10.0):", 0), 510),
      SetFont("Data Validation", 7, 1, FontKw(0, FALSE, NoneS, ColorRgb(Black6)), 511),
      SetValue("Data Validation", 7, 2, Val("float", "5.5", 0), 520),
      SetValue("Data Validation", 9, 1, Val("text", "Date (2024+):", 0), 523),
      SetFont("Data Validation", 9, 1, FontKw(0, FALSE, NoneS, ColorRgb(Black6)), 524),
      SetValue("Data Validation", 9, 2, Val("datetime", "2024-06-15 00:00:00", 0), 532),
      SetValue("Data Validation", 11, 1, Val("text", "Text length (max 20):", 0), 535),
      SetFont("Data Validation", 11, 1, FontKw(0, FALSE, NoneS, ColorRgb(Black6)), 536),
      SetValue("Data Validation", 11, 2, Val("text", "Short text", 0), 544),
      SetValue("Data Validation", 13, 1, Val("text", "Yes/No:", 0), 547),
      SetFont("Data Validation", 13, 1, FontKw(0, FALSE, NoneS, ColorRgb(Black6)), 548),
      SetValue("Data Validation", 13, 2, Val("text", "Yes", 0), 556),
      SetValue("Data Validation", 15, 1, Val("text", "Priority:", 0), 559),
      SetFont("Data Validation", 15, 1, FontKw(0, FALSE, NoneS, ColorRgb(Black6)), 560),
      SetValue("Data Validation", 15, 2, Val("text", "Medium", 0), 568)>>

\* Lines 576-628: sheet "Fonts & Rich Text", the statements in the order they run.
V3FontsSheet ==
    <<NewSheet("Fonts & Rich Text", 576),
      SetValue("Fonts & Rich Text", 1, 1, Val("text", "Font Styles and Rich Text", 0), 579),
      SetFont("Fonts & Rich Text", 1, 1, FontKw(14, TRUE, NoneS, ColorRgb(Black6)), 580),
      MergeCells("Fonts & Rich Text", 1, 1, 1, 3, 581),
      SetValue("Fonts & Rich Text", 3, 1, Val("text", "Bold", 0), 596),
      SetFont("Fonts & Rich Text", 3, 1, FontKw(0, TRUE, NoneS, ColorRgb(Black6)), 597),
      SetValue("Fonts & Rich Text", 4, 1, Val("text", "Italic", 0), 596),
      SetFont("Fonts & Rich Text", 4, 1, Font(NoneS, 0, FALSE, TRUE, NoneS, FALSE, NoneS, ColorRgb(Black6)), 597),
      SetValue("Fonts & Rich Text", 5, 1, Val("text", "Underline", 0), 596),
      SetFont("Fonts & Rich Text", 5, 1, FontKw(0, FALSE, "single", ColorRgb(Black6)), 597),
      SetValue("Fonts & Rich Text", 6, 1, Val("text", "Double Underline", 0), 596),
      SetFont("Fonts & Rich Text", 6, 1, FontKw(0, FALSE, "double", ColorRgb(Black6)), 597),
      SetValue("Fonts & Rich Text", 7, 1, Val("text", "Strikethrough", 0), 596),
      SetFont("Fonts & Rich Text", 7, 1, Font(NoneS, 0, FALSE, FALSE, NoneS, TRUE, NoneS, ColorRgb(Black6)), 597),
      SetValue("Fonts & Rich Text", 8, 1, Val("text", "Bold Italic", 0), 596),
      SetFont("Fonts & Rich Text", 8, 1, Font(NoneS, 0, TRUE, TRUE, NoneS, FALSE, NoneS, ColorRgb(Black6)), 597),
      SetValue("Fonts & Rich Text", 9, 1, Val("text", "Subscript", 0), 596),
      SetFont("Fonts & Rich Text", 9, 1, Font(NoneS, 0, FALSE, FALSE, NoneS, FALSE, "subscript", ColorRgb(Black6)), 597),
      SetValue("Fonts & Rich Text", 10, 1, Val("text", "Superscript", 0), 596),
      SetFont("Fonts & Rich Text", 10, 1, Font(NoneS, 0, FALSE, FALSE, NoneS, FALSE, "superscript", ColorRgb(Black6)), 597),
      SetValue("Fonts & Rich Text", 3, 2, Val("text", "Size 8", 0), 600),
      SetFont("Fonts & Rich Text", 3, 2, FontKw(8, FALSE, NoneS, ColorRgb(Black6)), 601),
      SetValue("Fonts & Rich Text", 4, 2, Val("text", "Size 11", 0), 602),
      SetFont("Fonts & Rich Text", 4, 2, FontKw(11, FALSE, NoneS, ColorRgb(Black6)), 603),
      SetValue("Fonts & Rich Text", 5, 2, Val("text", "Size 14", 0), 604),
      SetFont("Fonts & Rich Text", 5, 2, FontKw(14, FALSE, NoneS, ColorRgb(Black6)), 605),
      SetValue("Fonts & Rich Text", 6, 2, Val("text", "Size 18", 0), 606),
      SetFont("Fonts & Rich Text", 6, 2, FontKw(18, FALSE, NoneS, ColorRgb(Black6)), 607),
      SetValue("Fonts & Rich Text", 7, 2, Val("text", "Size 24", 0), 608),
      SetFont("Fonts & Rich Text", 7, 2, FontKw(24, FALSE, NoneS, ColorRgb(Black6)), 609),
      SetValue("Fonts & Rich Text", 3, 3, Val("text", "Red", 0), 621),
      SetFont("Fonts & Rich Text", 3, 3, FontKw(0, FALSE, NoneS, ColorRgb(<<"F", "F", "0", "0", "0", "0">>)), 622),
      SetValue("Fonts & Rich Text", 4, 3, Val("text", "Green", 0), 621),
      SetFont("Fonts & Rich Text", 4, 3, FontKw(0, FALSE, NoneS, ColorRgb(<<"0", "0", "F", "F", "0", "0">>)), 622),
      SetValue("Fonts & Rich Text", 5, 3, Val("text", "Blue", 0), 621),
      SetFont("Fonts & Rich Text", 5, 3, FontKw(0, FALSE, NoneS, ColorRgb(<<"0", "0", "0", "0", "F", "F">>)), 622),
      SetValue("Fonts & Rich Text", 6, 3, Val("text", "Orange", 0), 621),
      SetFont("Fonts & Rich Text", 6, 3, FontKw(0, FALSE, NoneS, ColorRgb(<<"F", "F", "C", "0", "0", "0">>)), 622),
      SetValue("Fonts & Rich Text", 7, 3, Val("text", "Purple", 0), 621),
      SetFont("Fonts & Rich Text", 7, 3, FontKw(0, FALSE, NoneS, ColorRgb(<<"7", "0", "3", "0", "A", "0">>)), 622),
      SetValue("Fonts & Rich Text", 12, 1, Val("text", "Arial", 0), 627),
      SetFont("Fonts & Rich Text", 12, 1, Font("Arial", 0, FALSE, FALSE, NoneS, FALSE, NoneS, ColorRgb(Black6)), 628),
      SetValue("Fonts & Rich Text", 13, 1, Val("text", "Times New Roman", 0), 627),
      SetFont("Fonts & Rich Text", 13, 1, Font("Times New Roman", 0, FALSE, FALSE, NoneS, FALSE, NoneS, ColorRgb(Black6)), 628),
      SetValue("Fonts & Rich Text", 14, 1, Val("text", "Courier New", 0), 627),
      SetFont("Fonts & Rich Text", 14, 1, Font("Courier New", 0, FALSE, FALSE, NoneS, FALSE, NoneS, ColorRgb(Black6)), 628),
      SetValue("Fonts & Rich Text", 15, 1, Val("text", "Verdana", 0), 627),
      SetFont("Fonts & Rich Text", 15, 1, Font("Verdana", 0, FALSE, FALSE, NoneS, FALSE, NoneS, ColorRgb(Black6)), 628),
      SetValue("Fonts & Rich Text", 16, 1, Val("text", "Georgia", 0), 627),
      SetFont("Fonts & Rich Text", 16, 1, Font("Georgia", 0, FALSE, FALSE, NoneS, FALSE, NoneS, ColorRgb(Black6)), 628)>>

\* Lines 637-697: sheet "Alignment", the statements in the order they run.
V3AlignmentSheet ==
    <<NewSheet("Alignment", 637),
      SetValue("Alignment", 1, 1, Val("text", "Alignment Options", 0), 640),
      SetFont("Alignment", 1, 1, FontKw(14, TRUE, NoneS, ColorRgb(Black6)), 641),
      MergeCells("Alignment", 1, 1, 1, 4, 642),
      SetValue("Alignment", 3, 1, Val("text", "Horizontal:", 0), 645),
      SetFont("Alignment", 3, 1, FontKw(0, TRUE, NoneS, ColorRgb(Black6)), 646),
      SetValue("Alignment", 4, 1, Val("text", "H: left", 0), 650),
      SetFont("Alignment", 4, 1, FontKw(0, FALSE, NoneS, ColorRgb(Black6)), 651),
      SetValue("Alignment", 5, 1, Val("text", "H: center", 0), 650),
      SetFont("Alignment", 5, 1, FontKw(0, FALSE, NoneS, ColorRgb(Black6)), 651),
      SetValue("Alignment", 6, 1, Val("text", "H: right", 0), 650),
      SetFont("Alignment", 6, 1, FontKw(0, FALSE, NoneS, ColorRgb(Black6)), 651),
      SetValue("Alignment", 7, 1, Val("text", "H: fill", 0), 650),
      SetFont("Alignment", 7, 1, FontKw(0, FALSE, NoneS, ColorRgb(Black6)), 651),
      SetValue("Alignment", 8, 1, Val("text", "H: justify", 0), 650),
      SetFont("Alignment", 8, 1, FontKw(0, FALSE, NoneS, ColorRgb(Black6)), 651),
      SetValue("Alignment", 9, 1, Val("text", "H: distributed", 0), 650),
      SetFont("Alignment", 9, 1, FontKw(0, FALSE, NoneS, ColorRgb(Black6)), 651),
      SetValue("Alignment", 3, 2, Val("text", "Vertical:", 0), 656),
      SetFont("Alignment", 3, 2, FontKw(0, TRUE, NoneS, ColorRgb(Black6)), 657),
      SetValue("Alignment", 4, 2, Val("text", "V: top", 0), 661),
      SetFont("Alignment", 4, 2, FontKw(0, FALSE, NoneS, ColorRgb(Black6)), 662),
      SetValue("Alignment", 5, 2, Val("text", "V: center", 0), 661),
      SetFont("Alignment", 5, 2, FontKw(0, FALSE, NoneS, ColorRgb(Black6)), 662),
      SetValue("Alignment", 6, 2, Val("text", "V: bottom", 0), 661),
      SetFont("Alignment", 6, 2, FontKw(0, FALSE, NoneS, ColorRgb(Black6)), 662),
      SetValue("Alignment", 7, 2, Val("text", "V: justify", 0), 661),
      SetFont("Alignment", 7, 2, FontKw(0, FALSE, NoneS, ColorRgb(Black6)), 662),
      SetValue("Alignment", 8, 2, Val("text", "V: distributed", 0), 661),
      SetFont("Alignment", 8, 2, FontKw(0, FALSE, NoneS, ColorRgb(Black6)), 662),
      SetValue("Alignment", 3, 3, Val("text", "Rotation:", 0), 667),
      SetFont("Alignment", 3, 3, FontKw(0, TRUE, NoneS, ColorRgb(Black6)), 668),
      SetValue("Alignment", 4, 3, Val("text", "Rot: 0", 0), 672),
      SetFont("Alignment", 4, 3, FontKw(0, FALSE, NoneS, ColorRgb(Black6)), 673),
      SetValue("Alignment", 5, 3, Val("text", "Rot: 45", 0), 672),
      SetFont("Alignment", 5, 3, FontKw(0, FALSE, NoneS, ColorRgb(Black6)), 673),
      SetValue("Alignment", 6, 3, Val("text", "Rot: 90", 0), 672),
      SetFont("Alignment", 6, 3, FontKw(0, FALSE, NoneS, ColorRgb(Black6)), 673),
      SetValue("Alignment", 7, 3, Val("text", "Rot: 135", 0), 672),
      SetFont("Alignment", 7, 3, FontKw(0, FALSE, NoneS, ColorRgb(Black6)), 673),
      SetValue("Alignment", 8, 3, Val("text", "Rot: 180", 0), 672),
      SetFont("Alignment", 8, 3, FontKw(0, FALSE, NoneS, ColorRgb(Black6)), 673),
      SetValue("Alignment", 9, 3, Val("text", "Rot: 255", 0), 672),
      SetFont("Alignment", 9, 3, FontKw(0, FALSE, NoneS, ColorRgb(Black6)), 673),
      SetValue("Alignment", 3, 4, Val("text", "Other:", 0), 677),
      SetFont("Alignment", 3, 4, FontKw(0, TRUE, NoneS, ColorRgb(Black6)), 678),
      SetValue("Alignment", 4, 4, Val("text", "This is a long text that should wrap to multiple lines in the cell", 0), 680),
      SetFont("Alignment", 4, 4, FontKw(0, FALSE, NoneS, ColorRgb(Black6)), 681),
      SetValue("Alignment", 5, 4, Val("text", "Indent 1", 0), 684),
      SetFont("Alignment", 5, 4, FontKw(0, FALSE, NoneS, ColorRgb(Black6)), 685),
      SetValue("Alignment", 6, 4, Val("text", "Indent 2", 0), 688),
      SetFont("Alignment", 6, 4, FontKw(0, FALSE, NoneS, ColorRgb(Black6)), 689),
      SetValue("Alignment", 7, 4, Val("text", "Indent 3", 0), 692),
      SetFont("Alignment", 7, 4, FontKw(0, FALSE, NoneS, ColorRgb(Black6)), 693),
      SetValue("Alignment", 8, 4, Val("text", "Shrink to fit", 0), 696),
      SetFont("Alignment", 8, 4, FontKw(0, FALSE, NoneS, ColorRgb(Black6)), 697)>>

\* Lines 707-758: sheet "Comments & Links", the statements in the order they run.
V3LinksSheet ==
    <<NewSheet("Comments & Links", 707),
      SetValue("Comments & Links", 1, 1, Val("text", "Comments and Hyperlinks", 0), 710),
      SetFont("Comments & Links", 1, 1, FontKw(14, TRUE, NoneS, ColorRgb(Black6)), 711),
      MergeCells("Comments & Links", 1, 1, 1, 3, 712),
      SetValue("Comments & Links", 3, 1, Val("text", "Cell with comment", 0), 715),
      SetFont("Comments & Links", 3, 1, FontKw(0, FALSE, NoneS, ColorRgb(Black6)), 716),
      SetValue("Comments & Links", 4, 1, Val("text", "Another comment", 0), 719),
      SetFont("Comments & Links", 4, 1, FontKw(0, FALSE, NoneS, ColorRgb(Black6)), 720),
      SetValue("Comments & Links", 5, 1, Val("text", "Long comment", 0), 723),
      SetFont("Comments & Links", 5, 1, FontKw(0, FALSE, NoneS, ColorRgb(Black6)), 724),
      SetValue("Comments & Links", 7, 1, Val("text", "External Links:", 0), 733),
      SetFont("Comments & Links", 7, 1, FontKw(0, TRUE, NoneS, ColorRgb(Black6)), 734),
      SetValue("Comments & Links", 8, 1, Val("text", "Google", 0), 736),
      SetLink("Comments & Links", 8, 1, "", 737),
      SetFont("Comments & Links", 8, 1, FontKw(0, FALSE, "single", ColorRgb(Rgb0563C1)), 738),
      SetValue("Comments & Links", 9, 1, Val("text", "GitHub", 0), 740),
      SetLink("Comments & Links", 9, 1, "", 741),
      SetFont("Comments & Links", 9, 1, FontKw(0, FALSE, "single", ColorRgb(Rgb0563C1)), 742),
      SetValue("Comments & Links", 10, 1, Val("text", "Email Link", 0), 744),
      SetLink("Comments & Links", 10, 1, "", 745),
      SetFont("Comments & Links", 10, 1, FontKw(0, FALSE, "single", ColorRgb(Rgb0563C1)), 746),
      SetValue("Comments & Links", 12, 1, Val("text", "Internal Links:", 0), 749),
      SetFont("Comments & Links", 12, 1, FontKw(0, TRUE, NoneS, ColorRgb(Black6)), 750),
      SetValue("Comments & Links", 13, 1, Val("text", "Go to Charts", 0), 752),
      SetLink("Comments & Links", 13, 1, "Charts", 753),
      SetFont("Comments & Links", 13, 1, FontKw(0, FALSE, "single", ColorRgb(Rgb0563C1)), 754),
      SetValue("Comments & Links", 14, 1, Val("text", "Go to Pattern Fills", 0), 756),
      SetLink("Comments & Links", 14, 1, "Pattern Fills", 757),
      SetFont("Comments & Links", 14, 1, FontKw(0, FALSE, "single", ColorRgb(Rgb0563C1)), 758)>>

\* Lines 765-805: sheet "Number Formats", the statements in the order they run.
V3NumberFormatsSheet ==
    <<NewSheet("Number Formats", 765),
      SetValue("Number Formats", 1, 1, Val("text", "Number Formats", 0), 768),
      SetFont("Number Formats", 1, 1, FontKw(14, TRUE, NoneS, ColorRgb(Black6)), 769),
      MergeCells("Number Formats", 1, 1, 1, 3, 770),
      SetValue("Number Formats", 3, 1, Val("text", "Format", 0), 772),
      SetValue("Number Formats", 3, 2, Val("text", "Value", 0), 773),
      SetValue("Number Formats", 3, 3, Val("text", "Display", 0), 774),
      SetFont("Number Formats", 3, 1, FontKw(0, TRUE, NoneS, ColorRgb(Black6)), 775),
      SetFont("Number Formats", 3, 2, FontKw(0, TRUE, NoneS, ColorRgb(Black6)), 776),
      SetFont("Number Formats", 3, 3, FontKw(0, TRUE, NoneS, ColorRgb(Black6)), 777),
      SetValue("Number Formats", 4, 1, Val("text", "General", 0), 798),
      SetFont("Number Formats", 4, 1, FontKw(0, FALSE, NoneS, ColorRgb(Black6)), 799),
      SetValue("Number Formats", 4, 2, Val("float", "1234.5678", 0), 800),
      SetFont("Number Formats", 4, 2, FontKw(0, FALSE, NoneS, ColorRgb(Black6)), 801),
      SetValue("Number Formats", 4, 3, Val("float", "1234.5678", 0), 802),
      SetFont("Number Formats", 4, 3, FontKw(0, FALSE, NoneS, ColorRgb(Black6)), 803),
      SetValue("Number Formats", 5, 1, Val("text", "Number (2 decimal)", 0), 798),
      SetFont("Number Formats", 5, 1, FontKw(0, FALSE, NoneS, ColorRgb(Black6)), 799),
      SetValue("Number Formats", 5, 2, Val("float", "1234.5678", 0), 800),
      SetFont("Number Formats", 5, 2, FontKw(0, FALSE, NoneS, ColorRgb(Black6)), 801),
      SetValue("Number Formats", 5, 3, Val("float", "1234.5678", 0), 802),
      SetFont("Number Formats", 5, 3, FontKw(0, FALSE, NoneS, ColorRgb(Black6)), 803),
      SetFormat("Number Formats", 5, 3, "0.00", 805),
      SetValue("Number Formats", 6, 1, Val("text", "Number with comma", 0), 798),
      SetFont("Number Formats", 6, 1, FontKw(0, FALSE, NoneS, ColorRgb(Black6)), 799),
      SetValue("Number Formats", 6, 2, Val("float", "1234567.89", 0), 800),
      SetFont("Number Formats", 6, 2, FontKw(0, FALSE, NoneS, ColorRgb(Black6)), 801),
      SetValue("Number Formats", 6, 3, Val("float", "1234567.89", 0), 802),
      SetFont("Number Formats", 6, 3, FontKw(0, FALSE, NoneS, ColorRgb(Black6)), 803),
      SetFormat("Number Formats", 6, 3, "#,##0.00", 805),
      SetValue("Number Formats", 7, 1, Val("text", "Currency $", 0), 798),
      SetFont("Number Formats", 7, 1, FontKw(0, FALSE, NoneS, ColorRgb(Black6)), 799),
      SetValue("Number Formats", 7, 2, Val("float", "1234.56", 0), 800),
      SetFont("Number Formats", 7, 2, FontKw(0, FALSE, NoneS, ColorRgb(Black6)), 801),
      SetValue("Number Formats", 7, 3, Val("float", "1234.56", 0), 802),
      SetFont("Number Formats", 7, 3, FontKw(0, FALSE, NoneS, ColorRgb(Black6)), 803),
      SetFormat("Number Formats", 7, 3, "$#,##0.00", 805),
      SetValue("Number Formats", 8, 1, Val("text", "Currency negative", 0), 798),
      SetFont("Number Formats", 8, 1, FontKw(0, FALSE, NoneS, ColorRgb(Black6)), 799),
      SetValue("Number Formats", 8, 2, Val("float", "-1234.56", 0), 800),
      SetFont("Number Formats", 8, 2, FontKw(0, FALSE, NoneS, ColorRgb(Black6)), 801),
      SetValue("Number Formats", 8, 3, Val("float", "-1234.56", 0), 802),
      SetFont("Number Formats", 8, 3, FontKw(0, FALSE, NoneS, ColorRgb(Black6)), 803),
      SetFormat("Number Formats", 8, 3, "$#,##0.00_);[Red]($#,##0.00)", 805),
      SetValue("Number Formats", 9, 1, Val("text", "Accounting", 0), 798),
      SetFont("Number Formats", 9, 1, FontKw(0, FALSE, NoneS, ColorRgb(Black6)), 799),
      SetValue("Number Formats", 9, 2, Val("float", "1234.56", 0), 800),
      SetFont("Number Formats", 9, 2, FontKw(0, FALSE, NoneS, ColorRgb(Black6)), 801),
      SetValue("Number Formats", 9, 3, Val("float", "1234.56", 0), 802),
      SetFont("Number Formats", 9, 3, FontKw(0, FALSE, NoneS, ColorRgb(Black6)), 803),
      SetFormat("Number Formats", 9, 3, "_($* #,##0.00_);_($* (#,##0.00);_($* \"-\"??_);_(@_)", 805),
      SetValue("Number Formats", 10, 1, Val("text", "Percentage", 0), 798),
      SetFont("Number Formats", 10, 1, FontKw(0, FALSE, NoneS, ColorRgb(Black6)), 799),
      SetValue("Number Formats", 10, 2, Val("float", "0.756", 0), 800),
      SetFont("Number Formats", 10, 2, FontKw(0, FALSE, NoneS, ColorRgb(Black6)), 801),
      SetValue("Number Formats", 10, 3, Val("float", "0.756", 0), 802),
      SetFont("Number Formats", 10, 3, FontKw(0, FALSE, NoneS, ColorRgb(Black6)), 803),
      SetFormat("Number Formats", 10, 3, "0.00%", 805),
      SetValue("Number Formats", 11, 1, Val("text", "Scientific", 0), 798),
      SetFont("Number Formats", 11, 1, FontKw(0, FALSE, NoneS, ColorRgb(Black6)), 799),
      SetValue("Number Formats", 11, 2, Val("int", "", 123456789), 800),
      SetFont("Number Formats", 11, 2, FontKw(0, FALSE, NoneS, ColorRgb(Black6)), 801),
      SetValue("Number Formats", 11, 3, Val("int", "", 123456789), 802),
      SetFont("Number Formats", 11, 3, FontKw(0, FALSE, NoneS, ColorRgb(Black6)), 803),
      SetFormat("Number Formats", 11, 3, "0.00E+00", 805),
      SetValue("Number Formats", 12, 1, Val("text", "Fraction", 0), 798),
      SetFont("Number Formats", 12, 1, FontKw(0, FALSE, NoneS, ColorRgb(Black6)), 799),
      SetValue("Number Formats", 12, 2, Val("float", "0.5", 0), 800),
      SetFont("Number Formats", 12, 2, FontKw(0, FALSE, NoneS, ColorRgb(Black6)), 801),
      SetValue("Number Formats", 12, 3, Val("float", "0.5", 0), 802),
      SetFont("Number Formats", 12, 3, FontKw(0, FALSE, NoneS, ColorRgb(Black6)), 803),
      SetFormat("Number Formats", 12, 3, "# ?/?", 805),
      SetValue("Number Formats", 13, 1, Val("text", "Date", 0), 798),
      SetFont("Number Formats", 13, 1, FontKw(0, FALSE, NoneS, ColorRgb(Black6)), 799),
      SetValue("Number Formats", 13, 2, Val("datetime", "2024-12-25 00:00:00", 0), 800),
      SetFont("Number Formats", 13, 2, FontKw(0, FALSE, NoneS, ColorRgb(Black6)), 801),
      SetValue("Number Formats", 13, 3, Val("datetime", "2024-12-25 00:00:00", 0), 802),
      SetFont("Number Formats", 13, 3, FontKw(0, FALSE, NoneS, ColorRgb(Black6)), 803),
      SetFormat("Number Formats", 13, 3, "YYYY-MM-DD", 805),
      SetValue("Number Formats", 14, 1, Val("text", "Date long", 0), 798),
      SetFont("Number Formats", 14, 1, FontKw(0, FALSE, NoneS, ColorRgb(Black6)), 799),
      SetValue("Number Formats", 14, 2, Val("datetime", "2024-12-25 00:00:00", 0), 800),
      SetFont("Number Formats", 14, 2, FontKw(0, FALSE, NoneS, ColorRgb(Black6)), 801),
      SetValue("Number Formats", 14, 3, Val("datetime", "2024-12-25 00:00:00", 0), 802),
      SetFont("Number Formats", 14, 3, FontKw(0, FALSE, NoneS, ColorRgb(Black6)), 803),
      SetFormat("Number Formats", 14, 3, "MMMM D, YYYY", 805),
      SetValue("Number Formats", 15, 1, Val("text", "Time", 0), 798),
      SetFont("Number Formats", 15, 1, FontKw(0, FALSE, NoneS, ColorRgb(Black6)), 799),
      SetValue("Number Formats", 15, 2, Val("datetime", "2024-01-01 14:30:45", 0), 800),
      SetFont("Number Formats", 15, 2, FontKw(0, FALSE, NoneS, ColorRgb(Black6)), 801),
      SetValue("Number Formats", 15, 3, Val("datetime", "2024-01-01 14:30:45", 0), 802),
      SetFont("Number Formats", 15, 3, FontKw(0, FALSE, NoneS, ColorRgb(Black6)), 803),
      SetFormat("Number Formats", 15, 3, "HH:MM:SS", 805),
      SetValue("Number Formats", 16, 1, Val("text", "DateTime", 0), 798),
      SetFont("Number Formats", 16, 1, FontKw(0, FALSE, NoneS, ColorRgb(Black6)), 799),
      SetValue("Number Formats", 16, 2, Val("datetime", "2024-12-25 10:30:00", 0), 800),
      SetFont("Number Formats", 16, 2, FontKw(0, FALSE, NoneS, ColorRgb(Black6)), 801),
      SetValue("Number Formats", 16, 3, Val("datetime", "2024-12-25 10:30:00", 0), 802),
      SetFont("Number Formats", 16, 3, FontKw(0, FALSE, NoneS, ColorRgb(Black6)), 803),
      SetFormat("Number Formats", 16, 3, "YYYY-MM-DD HH:MM", 805),
      SetValue("Number Formats", 17, 1, Val("text", "Text", 0), 798),
      SetFont("Number Formats", 17, 1, FontKw(0, FALSE, NoneS, ColorRgb(Black6)), 799),
      SetValue("Number Formats", 17, 2, Val("int", "", 12345), 800),
      SetFont("Number Formats", 17, 2, FontKw(0, FALSE, NoneS, ColorRgb(Black6)), 801),
      SetValue("Number Formats", 17, 3, Val("int", "", 12345), 802),
      SetFont("Number Formats", 17, 3, FontKw(0, FALSE, NoneS, ColorRgb(Black6)), 803),
      SetFormat("Number Formats", 17, 3, "@", 805),
      SetValue("Number Formats", 18, 1, Val("text", "Custom", 0), 798),
      SetFont("Number Formats", 18, 1, FontKw(0, FALSE, NoneS, ColorRgb(Black6)), 799),
      SetValue("Number Formats", 18, 2, Val("float", "12345.67", 0), 800),
      SetFont("Number Formats", 18, 2, FontKw(0, FALSE, NoneS, ColorRgb(Black6)), 801),
      SetValue("Number Formats", 18, 3, Val("float", "12345.67", 0), 802),
      SetFont("Number Formats", 18, 3, FontKw(0, FALSE, NoneS, ColorRgb(Black6)), 803),
      SetFormat("Number Formats", 18, 3, "[Blue]#,##0.00", 805)>>

\* Lines 814-884: sheet "Layout Features", the statements in the order they run.
V3LayoutSheet ==
    <<NewSheet("Layout Features", 814),
      SetValue("Layout Features", 1, 1, Val("text", "Layout Features (Frozen B2)", 0), 820),
      SetFont("Layout Features", 1, 1, FontKw(14, TRUE, NoneS, ColorRgb(Black6)), 821),
      SetValue("Layout Features", 3, 1, Val("text", "Merged 3x1", 0), 824),
      SetFont("Layout Features", 3, 1, FontKw(0, TRUE, NoneS, ColorRgb(White6)), 825),
      SetFill("Layout Features", 3, 1, PatternFill(ColorRgb(Rgb4472C4), "solid"), 826),
      MergeCells("Layout Features", 3, 1, 3, 3, 828),
      SetValue("Layout Features", 5, 1, Val("text", "Merged 1x3", 0), 830),
      SetFont("Layout Features", 5, 1, FontKw(0, TRUE, NoneS, ColorRgb(White6)), 831),
      SetFill("Layout Features", 5, 1, PatternFill(ColorRgb(Rgb70AD47), "solid"), 832),
      MergeCells("Layout Features", 5, 1, 7, 1, 834),
      SetValue("Layout Features", 5, 5, Val("text", "Merged 2x2", 0), 836),
      SetFont("Layout Features", 5, 5, FontKw(0, TRUE, NoneS, ColorRgb(White6)), 837),
      SetFill("Layout Features", 5, 5, PatternFill(ColorRgb(RgbED7D31), "solid"), 838),
      MergeCells("Layout Features", 5, 5, 6, 6, 840),
      SetValue("Layout Features", 10, 1, Val("text", "Column widths:", 0), 843),
      SetFont("Layout Features", 10, 1, FontKw(0, TRUE, NoneS, ColorRgb(Black6)), 844),
      SetValue("Layout Features", 11, 1, Val("text", "Width 20", 0), 853),
      SetFont("Layout Features", 11, 1, FontKw(0, FALSE, NoneS, ColorRgb(Black6)), 854),
      SetValue("Layout Features", 11, 2, Val("text", "5", 0), 855),
      SetFont("Layout Features", 11, 2, FontKw(0, FALSE, NoneS, ColorRgb(Black6)), 856),
      SetValue("Layout Features", 11, 3, Val("text", "Width 30 (wide column)", 0), 857),
      SetFont("Layout Features", 11, 3, FontKw(0, FALSE, NoneS, ColorRgb(Black6)), 858),
      SetValue("Layout Features", 13, 1, Val("text", "Row heights:", 0), 861),
      SetFont("Layout Features", 13, 1, FontKw(0, TRUE, NoneS, ColorRgb(Black6)), 862),
      SetValue("Layout Features", 14, 1, Val("text", "Height 30", 0), 864),
      SetFont("Layout Features", 14, 1, FontKw(0, FALSE, NoneS, ColorRgb(Black6)), 865),
      SetValue("Layout Features", 15, 1, Val("text", "Height 50", 0), 868),
      SetFont("Layout Features", 15, 1, FontKw(0, FALSE, NoneS, ColorRgb(Black6)), 869),
      SetValue("Layout Features", 16, 1, Val("text", "Height 10 (short)", 0), 872),
      SetFont("Layout Features", 16, 1, FontKw(0, FALSE, NoneS, ColorRgb(Black6)), 873),
      SetValue("Layout Features", 18, 1, Val("text", "Hidden row below (19)", 0), 877),
      SetFont("Layout Features", 18, 1, FontKw(0, FALSE, NoneS, ColorRgb(Black6)), 878),
      SetValue("Layout Features", 19, 1, Val("text", "This row is hidden", 0), 879),
      SetFont("Layout Features", 19, 1, FontKw(0, FALSE, NoneS, ColorRgb(Black6)), 880),
      SetValue("Layout Features", 1, 7, Val("text", "Hidden", 0), 883),
      SetFont("Layout Features", 1, 7, FontKw(0, FALSE, NoneS, ColorRgb(Black6)), 884)>>

\* Lines 890-913: sheet "Images", the statements in the order they run.
V3ImagesSheet ==
    <<NewSheet("Images", 890),
      SetValue("Images", 1, 1, Val("text", "Embedded Images", 0), 893),
      SetFont("Images", 1, 1, FontKw(14, TRUE, NoneS, ColorRgb(Black6)), 894),
      SetValue("Images", 2, 2, Val("text", "Red", 0), 912),
      SetFont("Images", 2, 2, FontKw(0, FALSE, NoneS, ColorRgb(Black6)), 913),
      SetValue("Images", 2, 4, Val("text", "Green", 0), 912),
      SetFont("Images", 2, 4, FontKw(0, FALSE, NoneS, ColorRgb(Black6)), 913),
      SetValue("Images", 2, 6, Val("text", "Blue", 0), 912),
      SetFont("Images", 2, 6, FontKw(0, FALSE, NoneS, ColorRgb(Black6)), 913),
      SetValue("Images", 2, 8, Val("text", "Yellow", 0), 912),
      SetFont("Images", 2, 8, FontKw(0, FALSE, NoneS, ColorRgb(Black6)), 913),
      SetValue("Images", 2, 2, Val("text", "Magenta", 0), 912),
      SetFont("Images", 2, 2, FontKw(0, FALSE, NoneS, ColorRgb(Black6)), 913),
      SetValue("Images", 2, 4, Val("text", "Cyan", 0), 912),
      SetFont("Images", 2, 4, FontKw(0, FALSE, NoneS, ColorRgb(Black6)), 913)>>

\* Lines 918-1003: sheet "Edge Cases", the statements in the order they run.
V3EdgeCasesSheet ==
    <<NewSheet("Edge Cases", 918),
      SetValue("Edge Cases", 1, 1, Val("text", "Edge Cases for Testing", 0), 921),
      SetFont("Edge Cases", 1, 1, FontKw(14, TRUE, NoneS, ColorRgb(Black6)), 922),
      MergeCells("Edge Cases", 1, 1, 1, 3, 923),
      SetValue("Edge Cases", 3, 1, Val("text", "Unicode:", 0), 926),
      SetFont("Edge Cases", 3, 1, FontKw(0, TRUE, NoneS, ColorRgb(Black6)), 927),
      SetValue("Edge Cases", 4, 1, Val("text", "Chinese", 0), 940),
      SetFont("Edge Cases", 4, 1, FontKw(0, FALSE, NoneS, ColorRgb(Black6)), 941),
      SetValue("Edge Cases", 4, 2, Val("text", "Hello World", 0), 942),
      SetFont("Edge Cases", 4, 2, FontKw(0, FALSE, NoneS, ColorRgb(Black6)), 943),
      SetValue("Edge Cases", 5, 1, Val("text", "Japanese", 0), 940),
      SetFont("Edge Cases", 5, 1, FontKw(0, FALSE, NoneS, ColorRgb(Black6)), 941),
      SetValue("Edge Cases", 5, 2, Val("text", "Hello World", 0), 942),
      SetFont("Edge Cases", 5, 2, FontKw(0, FALSE, NoneS, ColorRgb(Black6)), 943),
      SetValue("Edge Cases", 6, 1, Val("text", "Korean", 0), 940),
      SetFont("Edge Cases", 6, 1, FontKw(0, FALSE, NoneS, ColorRgb(Black6)), 941),
      SetValue("Edge Cases", 6, 2, Val("text", "Hello World", 0), 942),
      SetFont("Edge Cases", 6, 2, FontKw(0, FALSE, NoneS, ColorRgb(Black6)), 943),
      SetValue("Edge Cases", 7, 1, Val("text", "Arabic", 0), 940),
      SetFont("Edge Cases", 7, 1, FontKw(0, FALSE, NoneS, ColorRgb(Black6)), 941),
      SetValue("Edge Cases", 7, 2, Val("text", "Hello World", 0), 942),
      SetFont("Edge Cases", 7, 2, FontKw(0, FALSE, NoneS, ColorRgb(Black6)), 943),
      SetValue("Edge Cases", 8, 1, Val("text", "Hebrew", 0), 940),
      SetFont("Edge Cases", 8, 1, FontKw(0, FALSE, NoneS, ColorRgb(Black6)), 941),
      SetValue("Edge Cases", 8, 2, Val("text", "Hello World", 0), 942),
      SetFont("Edge Cases", 8, 2, FontKw(0, FALSE, NoneS, ColorRgb(Black6)), 943),
      SetValue("Edge Cases", 9, 1, Val("text", "Emoji", 0), 940),
      SetFont("Edge Cases", 9, 1, FontKw(0, FALSE, NoneS, ColorRgb(Black6)), 941),
      SetValue("Edge Cases", 9, 2, Val("text", "Test", 0), 942),
      SetFont("Edge Cases", 9, 2, FontKw(0, FALSE, NoneS, ColorRgb(Black6)), 943),
      SetValue("Edge Cases", 10, 1, Val("text", "Math symbols", 0), 940),
      SetFont("Edge Cases", 10, 1, FontKw(0, FALSE, NoneS, ColorRgb(Black6)), 941),
      SetValue("Edge Cases", 10, 2, Val("text", "Test", 0), 942),
      SetFont("Edge Cases", 10, 2, FontKw(0, FALSE, NoneS, ColorRgb(Black6)), 943),
      SetValue("Edge Cases", 12, 1, Val("text", "Long string:", 0), 946),
      SetFont("Edge Cases", 12, 1, FontKw(0, TRUE, NoneS, ColorRgb(Black6)), 947),
      SetValue("Edge Cases", 12, 2, Val("repeat", "A", 1000), 948),
      SetFont("Edge Cases", 12, 2, FontKw(0, FALSE, NoneS, ColorRgb(Black6)), 949),
      SetValue("Edge Cases", 14, 1, Val("text", "Empty with style:", 0), 952),
      SetFont("Edge Cases", 14, 1, FontKw(0, TRUE, NoneS, ColorRgb(Black6)), 953),
      SetFill("Edge Cases", 14, 2, PatternFill(ColorRgb(RgbFFFF00), "solid"), 954),
      SetBorder("Edge Cases", 14, 3, "thin", 955),
      SetValue("Edge Cases", 16, 1, Val("text", "Number limits:", 0), 963),
      SetFont("Edge Cases", 16, 1, FontKw(0, TRUE, NoneS, ColorRgb(Black6)), 964),
      SetValue("Edge Cases", 17, 1, Val("text", "Very small", 0), 966),
      SetFont("Edge Cases", 17, 1, FontKw(0, FALSE, NoneS, ColorRgb(Black6)), 967),
      SetValue("Edge Cases", 17, 2, Val("float", "1e-09", 0), 968),
      SetFont("Edge Cases", 17, 2, FontKw(0, FALSE, NoneS, ColorRgb(Black6)), 969),
      SetValue("Edge Cases", 18, 1, Val("text", "Very large", 0), 971),
      SetFont("Edge Cases", 18, 1, FontKw(0, FALSE, NoneS, ColorRgb(Black6)), 972),
      SetValue("Edge Cases", 18, 2, Val("float", "999999999999.99", 0), 973),
      SetFont("Edge Cases", 18, 2, FontKw(0, FALSE, NoneS, ColorRgb(Black6)), 974),
      SetValue("Edge Cases", 19, 1, Val("text", "Negative", 0), 976),
      SetFont("Edge Cases", 19, 1, FontKw(0, FALSE, NoneS, ColorRgb(Black6)), 977),
      SetValue("Edge Cases", 19, 2, Val("float", "-12345.67", 0), 978),
      SetFont("Edge Cases", 19, 2, FontKw(0, FALSE, NoneS, ColorRgb(Black6)), 979),
      SetValue("Edge Cases", 20, 1, Val("text", "Zero", 0), 981),
      SetFont("Edge Cases", 20, 1, FontKw(0, FALSE, NoneS, ColorRgb(Black6)), 982),
      SetValue("Edge Cases", 20, 2, Val("int", "", 0), 983),
      SetFont("Edge Cases", 20, 2, FontKw(0, FALSE, NoneS, ColorRgb(Black6)), 984),
      SetValue("Edge Cases", 22, 1, Val("text", "Special chars:", 0), 987),
      SetFont("Edge Cases", 22, 1, FontKw(0, TRUE, NoneS, ColorRgb(Black6)), 988),
      SetValue("Edge Cases", 23, 1, Val("text", "Quotes", 0), 1000),
      SetFont("Edge Cases", 23, 1, FontKw(0, FALSE, NoneS, ColorRgb(Black6)), 1001),
      SetValue("Edge Cases", 23, 2, Val("text", "Text with \"quotes\" inside", 0), 1002),
      SetFont("Edge Cases", 23, 2, FontKw(0, FALSE, NoneS, ColorRgb(Black6)), 1003),
      SetValue("Edge Cases", 24, 1, Val("text", "Apostrophe", 0), 1000),
      SetFont("Edge Cases", 24, 1, FontKw(0, FALSE, NoneS, ColorRgb(Black6)), 1001),
      SetValue("Edge Cases", 24, 2, Val("text", "It's a test", 0), 1002),
      SetFont("Edge Cases", 24, 2, FontKw(0, FALSE, NoneS, ColorRgb(Black6)), 1003),
      SetValue("Edge Cases", 25, 1, Val("text", "Ampersand", 0), 1000),
      SetFont("Edge Cases", 25, 1, FontKw(0, FALSE, NoneS, ColorRgb(Black6)), 1001),
      SetValue("Edge Cases", 25, 2, Val("text", "A & B", 0), 1002),
      SetFont("Edge Cases", 25, 2, FontKw(0, FALSE, NoneS, ColorRgb(Black6)), 1003),
      SetValue("Edge Cases", 26, 1, Val("text", "Less/Greater", 0), 1000),
      SetFont("Edge Cases", 26, 1, FontKw(0, FALSE, NoneS, ColorRgb(Black6)), 1001),
      SetValue("Edge Cases", 26, 2, Val("text", "<tag>value</tag>", 0), 1002),
      SetFont("Edge Cases", 26, 2, FontKw(0, FALSE, NoneS, ColorRgb(Black6)), 1003),
      SetValue("Edge Cases", 27, 1, Val("text", "Newline", 0), 1000),
      SetFont("Edge Cases", 27, 1, FontKw(0, FALSE, NoneS, ColorRgb(Black6)), 1001),
      SetValue("Edge Cases", 27, 2, Val("text", "Line1\nLine2", 0), 1002),
      SetFont("Edge Cases", 27, 2, FontKw(0, FALSE, NoneS, ColorRgb(Black6)), 1003),
      SetValue("Edge Cases", 28, 1, Val("text", "Tab", 0), 1000),
      SetFont("Edge Cases", 28, 1, FontKw(0, FALSE, NoneS, ColorRgb(Black6)), 1001),
      SetValue("Edge Cases", 28, 2, Val("text", "Col1\tCol2", 0), 1002),
      SetFont("Edge Cases", 28, 2, FontKw(0, FALSE, NoneS, ColorRgb(Black6)), 1003)>>

\* Lines 1011-1011: sheet "Empty Sheet", the statements in the order they run.
V3EmptySheet ==
    <<NewSheet("Empty Sheet", 1011)>>

\* Lines 1018-1021: sheet "Hidden Sheet", the statements in the order they run.
V3HiddenSheet ==
    <<NewSheet("Hidden Sheet", 1018),
      SetValue("Hidden Sheet", 1, 1, Val("text", "This sheet is hidden", 0), 1020),
      SetFont("Hidden Sheet", 1, 1, FontKw(0, FALSE, NoneS, ColorRgb(Black6)), 1021)>>

\* The sheets in the order they are made.
V3Stmts ==
    V3PatternFillsSheet
    \o V3BorderStylesSheet
    \o V3FormattingSheet
    \o V3ChartsSheet
    \o V3ValidationSheet
    \o V3FontsSheet
    \o V3AlignmentSheet
    \o V3LinksSheet
    \o V3NumberFormatsSheet
    \o V3LayoutSheet
    \o V3ImagesSheet
    \o V3EdgeCasesSheet
    \o V3EmptySheet
    \o V3HiddenSheet

(***************************************************************************)
(* generate_kitchen_sink_v2.py, create_kitchen_sink: every statement that *)
(* makes a sheet, writes a value, a font, a fill, a border, a number       *)
(* format or a link, merges cells or adds a rule or a chart, in the order  *)
(* they run (loops are unrolled).  Alignments, comments, images, data      *)
(* validations and column widths are not part of the state.  The sweep     *)
(* that follows them is the action DoSweep.                                *)
(***************************************************************************)
RgbE2EFDA == <<"E", "2", "E", "F", "D", "A">>
RgbDDEBF7 == <<"D", "D", "E", "B", "F", "7">>

\* Lines 59-141: sheet "Charts", the statements in the order they run.
V2ChartsSheet ==
    <<NewSheet("Charts", 59),
      SetValue("Charts", 1, 1, Val("text", "Category", 0), 63),
      SetValue("Charts", 1, 2, Val("text", "Series 1", 0), 64),
      SetValue("Charts", 1, 3, Val("text", "Series 2", 0), 65),
      SetValue("Charts", 1, 4, Val("text", "Series 3", 0), 66),
      SetValue("Charts", 2, 1, Val("text", "Q1", 0), 77),
      SetFont("Charts", 2, 1, FontKw(0, FALSE, NoneS, ColorRgb(Black6)), 78),
      SetValue("Charts", 2, 2, Val("int", "", 10), 79),
      SetFont("Charts", 2, 2, FontKw(0, FALSE, NoneS, ColorRgb(Black6)), 80),
      SetValue("Charts", 2, 3, Val("int", "", 20), 81),
      SetFont("Charts", 2, 3, FontKw(0, FALSE, NoneS, ColorRgb(Black6)), 82),
      SetValue("Charts", 2, 4, Val("int", "", 15), 83),
      SetFont("Charts", 2, 4, FontKw(0, FALSE, NoneS, ColorRgb(Black6)), 84),
      SetValue("Charts", 3, 1, Val("text", "Q2", 0), 77),
      SetFont("Charts", 3, 1, FontKw(0, FALSE, NoneS, ColorRgb(Black6)), 78),
      SetValue("Charts", 3, 2, Val("int", "", 25), 79),
      SetFont("Charts", 3, 2, FontKw(0, FALSE, NoneS, ColorRgb(Black6)), 80),
      SetValue("Charts", 3, 3, Val("int", "", 15), 81),
      SetFont("Charts", 3, 3, FontKw(0, FALSE, NoneS, ColorRgb(Black6)), 82),
      SetValue("Charts", 3, 4, Val("int", "", 30), 83),
      SetFont("Charts", 3, 4, FontKw(0, FALSE, NoneS, ColorRgb(Black6)), 84),
      SetValue("Charts", 4, 1, Val("text", "Q3", 0), 77),
      SetFont("Charts", 4, 1, FontKw(0, FALSE, NoneS, ColorRgb(Black6)), 78),
      SetValue("Charts", 4, 2, Val("int", "", 15), 79),
      SetFont("Charts", 4, 2, FontKw(0, FALSE, NoneS, ColorRgb(Black6)), 80),
      SetValue("Charts", 4, 3, Val("int", "", 25), 81),
      SetFont("Charts", 4, 3, FontKw(0, FALSE, NoneS, ColorRgb(Black6)), 82),
      SetValue("Charts", 4, 4, Val("int", "", 20), 83),
      SetFont("Charts", 4, 4, FontKw(0, FALSE, NoneS, ColorRgb(Black6)), 84),
      SetValue("Charts", 5, 1, Val("text", "Q4", 0), 77),
      SetFont("Charts", 5, 1, FontKw(0, FALSE, NoneS, ColorRgb(Black6)), 78),
      SetValue("Charts", 5, 2, Val("int", "", 30), 79),
      SetFont("Charts", 5, 2, FontKw(0, FALSE, NoneS, ColorRgb(Black6)), 80),
      SetValue("Charts", 5, 3, Val("int", "", 20), 81),
      SetFont("Charts", 5, 3, FontKw(0, FALSE, NoneS, ColorRgb(Black6)), 82),
      SetValue("Charts", 5, 4, Val("int", "", 25), 83),
      SetFont("Charts", 5, 4, FontKw(0, FALSE, NoneS, ColorRgb(Black6)), 84),
      SetFont("Charts", 1, 1, FontKw(0, TRUE, NoneS, ColorRgb(White6)), 89),
      SetFill("Charts", 1, 1, PatternFill(ColorRgb(Rgb4472C4), "solid"), 90),
      SetFont("Charts", 1, 2, FontKw(0, TRUE, NoneS, ColorRgb(White6)), 89),
      SetFill("Charts", 1, 2, PatternFill(ColorRgb(Rgb4472C4), "solid"), 90),
      SetFont("Charts", 1, 3, FontKw(0, TRUE, NoneS, ColorRgb(White6)), 89),
      SetFill("Charts", 1, 3, PatternFill(ColorRgb(Rgb4472C4), "solid"), 90),
      SetFont("Charts", 1, 4, FontKw(0, TRUE, NoneS, ColorRgb(White6)), 89),
      SetFill("Charts", 1, 4, PatternFill(ColorRgb(Rgb4472C4), "solid"), 90),
      AddChart("Charts", "BarChart", "", 2, 6, 105),
      AddChart("Charts", "LineChart", "", 18, 6, 114),
      SetValue("Charts", 1, 7, Val("text", "Product", 0), 117),
      SetFont("Charts", 1, 7, FontKw(0, FALSE, NoneS, ColorRgb(Black6)), 118),
      SetValue("Charts", 1, 8, Val("text", "Sales", 0), 119),
      SetFont("Charts", 1, 8, FontKw(0, FALSE, NoneS, ColorRgb(Black6)), 120),
      SetValue("Charts", 2, 7, Val("text", "Widgets", 0), 123),
      SetFont("Charts", 2, 7, FontKw(0, FALSE, NoneS, ColorRgb(Black6)), 124),
      SetValue("Charts", 2, 8, Val("int", "", 35), 125),
      SetFont("Charts", 2, 8, FontKw(0, FALSE, NoneS, ColorRgb(Black6)), 126),
      SetValue("Charts", 3, 7, Val("text", "Gadgets", 0), 123),
      SetFont("Charts", 3, 7, FontKw(0, FALSE, NoneS, ColorRgb(Black6)), 124),
      SetValue("Charts", 3, 8, Val("int", "", 25), 125),
      SetFont("Charts", 3, 8, FontKw(0, FALSE, NoneS, ColorRgb(Black6)), 126),
      SetValue("Charts", 4, 7, Val("text", "Gizmos", 0), 123),
      SetFont("Charts", 4, 7, FontKw(0, FALSE, NoneS, ColorRgb(Black6)), 124),
      SetValue("Charts", 4, 8, Val("int", "", 20), 125),
      SetFont("Charts", 4, 8, FontKw(0, FALSE, NoneS, ColorRgb(Black6)), 126),
      SetValue("Charts", 5, 7, Val("text", "Things", 0), 123),
      SetFont("Charts", 5, 7, FontKw(0, FALSE, NoneS, ColorRgb(Black6)), 124),
      SetValue("Charts", 5, 8, Val("int", "", 20), 125),
      SetFont("Charts", 5, 8, FontKw(0, FALSE, NoneS, ColorRgb(Black6)), 126),
      AddChart("Charts", "PieChart", "", 2, 16, 134),
      AddChart("Charts", "AreaChart", "", 18, 16, 141)>>

\* Lines 146-175: sheet "Images", the statements in the order they run.
V2ImagesSheet ==
    <<NewSheet("Images", 146),
      SetValue("Images", 1, 1, Val("text", "This sheet contains embedded images", 0), 149),
      SetFont("Images", 1, 1, FontKw(14, TRUE, NoneS, ColorRgb(Black6)), 150),
      SetValue("Images", 2, 2, Val("text", "Red", 0), 156),
      SetFont("Images", 2, 2, FontKw(0, FALSE, NoneS, ColorRgb(Black6)), 157),
      SetValue("Images", 2, 4, Val("text", "Green", 0), 162),
      SetFont("Images", 2, 4, FontKw(0, FALSE, NoneS, ColorRgb(Black6)), 163),
      SetValue("Images", 2, 6, Val("text", "Blue", 0), 168),
      SetFont("Images", 2, 6, FontKw(0, FALSE, NoneS, ColorRgb(Black6)), 169),
      SetValue("Images", 2, 8, Val("text", "Yellow", 0), 174),
      SetFont("Images", 2, 8, FontKw(0, FALSE, NoneS, ColorRgb(Black6)), 175)>>

\* Lines 180-248: sheet "Data Validation", the statements in the order they run.
V2ValidationSheet ==
    <<NewSheet("Data Validation", 180),
      SetValue("Data Validation", 1, 1, Val("text", "Dropdown Examples", 0), 183),
      SetFont("Data Validation", 1, 1, FontKw(14, TRUE, NoneS, None), 184),
      SetValue("Data Validation", 3, 1, Val("text", "Select Status:", 0), 187),
      SetValue("Data Validation", 3, 2, Val("text", "Active", 0), 198),
      SetValue("Data Validation", 4, 1, Val("text", "Select Priority:", 0), 201),
      SetValue("Data Validation", 4, 2, Val("text", "Medium", 0), 209),
      SetValue("Data Validation", 6, 1, Val("text", "Enter Age (1-120):", 0), 212),
      SetValue("Data Validation", 6, 2, Val("int", "", 25), 223),
      SetValue("Data Validation", 7, 1, Val("text", "Enter Date (2024+):", 0), 226),
      SetValue("Data Validation", 9, 1, Val("text", "Completed?", 0), 236),
      SetValue("Data Validation", 10, 1, Val("text", "Approved?", 0), 237),
      SetValue("Data Validation", 11, 1, Val("text", "Verified?", 0), 238),
      SetValue("Data Validation", 9, 2, Val("text", "Yes", 0), 246),
      SetValue("Data Validation", 10, 2, Val("text", "No", 0), 247),
      SetValue("Data Validation", 11, 2, Val("text", "Yes", 0), 248)>>

\* Lines 253-362: sheet "Conditional Formatting", the statements in the order they run.
V2FormattingSheet ==
    <<NewSheet("Conditional Formatting", 253),
      SetValue("Conditional Formatting", 1, 1, Val("text", "Conditional Formatting Examples", 0), 256),
      SetFont("Conditional Formatting", 1, 1, FontKw(14, TRUE, NoneS, None), 257),
      MergeCells("Conditional Formatting", 1, 1, 1, 5, 258),
      SetValue("Conditional Formatting", 3, 1, Val("text", "Color Scale (2-color)", 0), 261),
      SetFont("Conditional Formatting", 3, 1, FontKw(0, TRUE, NoneS, None), 262),
      SetValue("Conditional Formatting", 4, 1, Val("int", "", 10), 264),
      SetValue("Conditional Formatting", 5, 1, Val("int", "", 30), 264),
      SetValue("Conditional Formatting", 6, 1, Val("int", "", 50), 264),
      SetValue("Conditional Formatting", 7, 1, Val("int", "", 70), 264),
      SetValue("Conditional Formatting", 8, 1, Val("int", "", 90), 264),
      AddRule("Conditional Formatting", 4, 1, 8, 1, "colorScale2", 266),
      SetValue("Conditional Formatting", 3, 2, Val("text", "Color Scale (3-color)", 0), 275),
      SetFont("Conditional Formatting", 3, 2, FontKw(0, TRUE, NoneS, None), 276),
      SetValue("Conditional Formatting", 4, 2, Val("int", "", 0), 278),
      SetValue("Conditional Formatting", 5, 2, Val("int", "", 25), 278),
      SetValue("Conditional Formatting", 6, 2, Val("int", "", 50), 278),
      SetValue("Conditional Formatting", 7, 2, Val("int", "", 75), 278),
      SetValue("Conditional Formatting", 8, 2, Val("int", "", 100), 278),
      AddRule("Conditional Formatting", 4, 2, 8, 2, "colorScale3", 280),
      SetValue("Conditional Formatting", 3, 3, Val("text", "Data Bars", 0), 290),
      SetFont("Conditional Formatting", 3, 3, FontKw(0, TRUE, NoneS, None), 291),
      SetValue("Conditional Formatting", 4, 3, Val("int", "", 20), 293),
      SetValue("Conditional Formatting", 5, 3, Val("int", "", 40), 293),
      SetValue("Conditional Formatting", 6, 3, Val("int", "", 60), 293),
      SetValue("Conditional Formatting", 7, 3, Val("int", "", 80), 293),
      SetValue("Conditional Formatting", 8, 3, Val("int", "", 100), 293),
      AddRule("Conditional Formatting", 4, 3, 8, 3, "dataBar", 295),
      SetValue("Conditional Formatting", 3, 4, Val("text", "Icon Set (Arrows)", 0), 308),
      SetFont("Conditional Formatting", 3, 4, FontKw(0, TRUE, NoneS, None), 309),
      SetValue("Conditional Formatting", 4, 4, Val("int", "", 15), 311),
      SetValue("Conditional Formatting", 5, 4, Val("int", "", 35), 311),
      SetValue("Conditional Formatting", 6, 4, Val("int", "", 55), 311),
      SetValue("Conditional Formatting", 7, 4, Val("int", "", 75), 311),
      SetValue("Conditional Formatting", 8, 4, Val("int", "", 95), 311),
      AddRule("Conditional Formatting", 4, 4, 8, 4, "iconSet 3Arrows", 313),
      SetValue("Conditional Formatting", 3, 5, Val("text", "Icon Set (Lights)", 0), 323),
      SetFont("Conditional Formatting", 3, 5, FontKw(0, TRUE, NoneS, None), 324),
      SetValue("Conditional Formatting", 4, 5, Val("int", "", 1), 326),
      SetValue("Conditional Formatting", 5, 5, Val("int", "", 2), 326),
      SetValue("Conditional Formatting", 6, 5, Val("int", "", 3), 326),
      SetValue("Conditional Formatting", 7, 5, Val("int", "", 2), 326),
      SetValue("Conditional Formatting", 8, 5, Val("int", "", 1), 326),
      AddRule("Conditional Formatting", 4, 5, 8, 5, "iconSet 3TrafficLights1", 328),
      SetValue("Conditional Formatting", 10, 1, Val("text", "Cell Rules Examples", 0), 338),
      SetFont("Conditional Formatting", 10, 1, FontKw(0, TRUE, NoneS, None), 339),
      MergeCells("Conditional Formatting", 10, 1, 10, 5, 340),
      SetValue("Conditional Formatting", 11, 1, Val("text", "Value", 0), 342),
      SetValue("Conditional Formatting", 11, 2, Val("text", ">50 (Green)", 0), 343),
      SetValue("Conditional Formatting", 11, 3, Val("text", "<30 (Red)", 0), 344),
      SetValue("Conditional Formatting", 12, 1, Val("int", "", 10), 347),
      SetValue("Conditional Formatting", 12, 2, Val("int", "", 10), 348),
      SetValue("Conditional Formatting", 12, 3, Val("int", "", 10), 349),
      SetValue("Conditional Formatting", 13, 1, Val("int", "", 40), 347),
      SetValue("Conditional Formatting", 13, 2, Val("int", "", 40), 348),
      SetValue("Conditional Formatting", 13, 3, Val("int", "", 40), 349),
      SetValue("Conditional Formatting", 14, 1, Val("int", "", 60), 347),
      SetValue("Conditional Formatting", 14, 2, Val("int", "", 60), 348),
      SetValue("Conditional Formatting", 14, 3, Val("int", "", 60), 349),
      SetValue("Conditional Formatting", 15, 1, Val("int", "", 25), 347),
      SetValue("Conditional Formatting", 15, 2, Val("int", "", 25), 348),
      SetValue("Conditional Formatting", 15, 3, Val("int", "", 25), 349),
      SetValue("Conditional Formatting", 16, 1, Val("int", "", 80), 347),
      SetValue("Conditional Formatting", 16, 2, Val("int", "", 80), 348),
      SetValue("Conditional Formatting", 16, 3, Val("int", "", 80), 349),
      AddRule("Conditional Formatting", 12, 2, 16, 2, "cellIs greaterThan", 352),
      AddRule("Conditional Formatting", 12, 3, 16, 3, "cellIs lessThan", 362)>>

\* Lines 374-484: sheet "Styles", the statements in the order they run.
V2StylesSheet ==
    <<NewSheet("Styles", 374),
      SetValue("Styles", 1, 1, Val("text", "Style Examples", 0), 380),
      SetFont("Styles", 1, 1, FontKw(16, TRUE, NoneS, ColorRgb(Rgb4472C4)), 381),
      SetValue("Styles", 3, 1, Val("text", "Font Styles:", 0), 384),
      SetFont("Styles", 3, 1, FontKw(0, TRUE, NoneS, None), 385),
      SetValue("Styles", 3, 2, Val("text", "Bold", 0), 387),
      SetFont("Styles", 3, 2, FontKw(0, TRUE, NoneS, None), 388),
      SetValue("Styles", 3, 3, Val("text", "Italic", 0), 390),
      SetFont("Styles", 3, 3, Font(NoneS, 0, FALSE, TRUE, NoneS, FALSE, NoneS, None), 391),
      SetValue("Styles", 3, 4, Val("text", "Underline", 0), 393),
      SetFont("Styles", 3, 4, FontKw(0, FALSE, "single", None), 394),
      SetValue("Styles", 3, 5, Val("text", "Strikethrough", 0), 396),
      SetFont("Styles", 3, 5, Font(NoneS, 0, FALSE, FALSE, NoneS, TRUE, NoneS, None), 397),
      SetValue("Styles", 3, 6, Val("text", "Red Text", 0), 399),
      SetFont("Styles", 3, 6, FontKw(0, FALSE, NoneS, ColorRgb(<<"F", "F", "0", "0", "0", "0">>)), 400),
      SetValue("Styles", 3, 7, Val("text", "Large", 0), 402),
      SetFont("Styles", 3, 7, FontKw(18, FALSE, NoneS, None), 403),
      SetValue("Styles", 5, 1, Val("text", "Fill Patterns:", 0), 406),
      SetFont("Styles", 5, 1, FontKw(0, TRUE, NoneS, None), 407),
      SetValue("Styles", 5, 2, Val("text", "Solid", 0), 409),
      SetFill("Styles", 5, 2, PatternFill(ColorRgb(RgbFFFF00), "solid"), 410),
      SetValue("Styles", 5, 3, Val("text", "Gray125", 0), 412),
      SetFill("Styles", 5, 3, PatternFill(ColorRgb(Black6), "gray125"), 413),
      SetValue("Styles", 5, 4, Val("text", "Gradient", 0), 415),
      SetFill("Styles", 5, 4, GradientFill, 416),
      SetValue("Styles", 7, 1, Val("text", "Borders:", 0), 419),
      SetFont("Styles", 7, 1, FontKw(0, TRUE, NoneS, None), 420),
      SetValue("Styles", 7, 2, Val("text", "Thin", 0), 443),
      SetBorder("Styles", 7, 2, "thin", 444),
      SetValue("Styles", 7, 3, Val("text", "Thick Red", 0), 446),
      SetBorder("Styles", 7, 3, "thick", 447),
      SetValue("Styles", 7, 4, Val("text", "Dashed", 0), 449),
      SetBorder("Styles", 7, 4, "dashed", 450),
      SetValue("Styles", 9, 1, Val("text", "Alignment:", 0), 453),
      SetFont("Styles", 9, 1, FontKw(0, TRUE, NoneS, None), 454),
      SetValue("Styles", 9, 2, Val("text", "Center", 0), 456),
      SetValue("Styles", 9, 3, Val("text", "Right", 0), 459),
      SetValue("Styles", 9, 4, Val("text", "Wrapped Long Text That Wraps", 0), 462),
      SetValue("Styles", 9, 5, Val("text", "45 Degrees", 0), 466),
      SetValue("Styles", 9, 6, Val("text", "Indent", 0), 469),
      SetValue("Styles", 11, 1, Val("text", "Merged Cells:", 0), 473),
      SetFont("Styles", 11, 1, FontKw(0, TRUE, NoneS, None), 474),
      MergeCells("Styles", 11, 2, 11, 4, 476),
      SetValue("Styles", 11, 2, Val("text", "This is merged across 3 cells", 0), 477),
      SetFill("Styles", 11, 2, PatternFill(ColorRgb(RgbE2EFDA), "solid"), 479),
      MergeCells("Styles", 12, 2, 14, 2, 481),
      SetValue("Styles", 12, 2, Val("text", "Vertical merge", 0), 482),
      SetFill("Styles", 12, 2, PatternFill(ColorRgb(RgbDDEBF7), "solid"), 484)>>

\* Lines 489-524: sheet "Comments & Links", the statements in the order they run.
V2LinksSheet ==
    <<NewSheet("Comments & Links", 489),
      SetValue("Comments & Links", 1, 1, Val("text", "Comments and Hyperlinks", 0), 492),
      SetFont("Comments & Links", 1, 1, FontKw(14, TRUE, NoneS, None), 493),
      SetValue("Comments & Links", 3, 1, Val("text", "Cells with comments:", 0), 496),
      SetFont("Comments & Links", 3, 1, FontKw(0, TRUE, NoneS, None), 497),
      SetValue("Comments & Links", 3, 2, Val("text", "Hover here", 0), 499),
      SetValue("Comments & Links", 3, 3, Val("text", "Another comment", 0), 502),
      SetValue("Comments & Links", 5, 1, Val("text", "Hyperlinks:", 0), 506),
      SetFont("Comments & Links", 5, 1, FontKw(0, TRUE, NoneS, None), 507),
      SetValue("Comments & Links", 5, 2, Val("text", "Google", 0), 509),
      SetLink("Comments & Links", 5, 2, "", 510),
      SetFont("Comments & Links", 5, 2, FontKw(0, FALSE, "single", ColorRgb(Rgb0563C1)), 511),
      SetValue("Comments & Links", 5, 3, Val("text", "Microsoft", 0), 513),
      SetLink("Comments & Links", 5, 3, "", 514),
      SetFont("Comments & Links", 5, 3, FontKw(0, FALSE, "single", ColorRgb(Rgb0563C1)), 515),
      SetValue("Comments & Links", 6, 2, Val("text", "Email Link", 0), 517),
      SetLink("Comments & Links", 6, 2, "", 518),
      SetFont("Comments & Links", 6, 2, FontKw(0, FALSE, "single", ColorRgb(Rgb0563C1)), 519),
      SetValue("Comments & Links", 7, 2, Val("text", "Go to Charts Sheet", 0), 522),
      SetLink("Comments & Links", 7, 2, "Charts", 523),
      SetFont("Comments & Links", 7, 2, FontKw(0, FALSE, "single", ColorRgb(Rgb0563C1)), 524)>>

\* Lines 529-575: sheet "Numbers & Dates", the statements in the order they run.
V2NumbersSheet ==
    <<NewSheet("Numbers & Dates", 529),
      SetValue("Numbers & Dates", 1, 1, Val("text", "Number Formats", 0), 532),
      SetFont("Numbers & Dates", 1, 1, FontKw(14, TRUE, NoneS, None), 533),
      SetValue("Numbers & Dates", 3, 1, Val("text", "Format", 0), 536),
      SetValue("Numbers & Dates", 3, 2, Val("text", "Value", 0), 537),
      SetFont("Numbers & Dates", 3, 1, FontKw(0, TRUE, NoneS, None), 538),
      SetFont("Numbers & Dates", 3, 2, FontKw(0, TRUE, NoneS, None), 539),
      SetValue("Numbers & Dates", 4, 1, Val("text", "General", 0), 541),
      SetValue("Numbers & Dates", 4, 2, Val("float", "1234.5678", 0), 542),
      SetValue("Numbers & Dates", 5, 1, Val("text", "Currency", 0), 544),
      SetValue("Numbers & Dates", 5, 2, Val("float", "1234.56", 0), 545),
      SetFormat("Numbers & Dates", 5, 2, "$#,##0.00", 546),
      SetValue("Numbers & Dates", 6, 1, Val("text", "Percentage", 0), 548),
      SetValue("Numbers & Dates", 6, 2, Val("float", "0.756", 0), 549),
      SetFormat("Numbers & Dates", 6, 2, "0.00%", 550),
      SetValue("Numbers & Dates", 7, 1, Val("text", "Scientific", 0), 552),
      SetValue("Numbers & Dates", 7, 2, Val("int", "", 123456789), 553),
      SetFormat("Numbers & Dates", 7, 2, "0.00E+00", 554),
      SetValue("Numbers & Dates", 8, 1, Val("text", "Date", 0), 556),
      SetValue("Numbers & Dates", 8, 2, Val("datetime", "2024-06-15 00:00:00", 0), 558),
      SetFormat("Numbers & Dates", 8, 2, "YYYY-MM-DD", 559),
      SetValue("Numbers & Dates", 9, 1, Val("text", "Time", 0), 561),
      SetValue("Numbers & Dates", 9, 2, Val("datetime", "2024-01-01 14:30:45", 0), 562),
      SetFormat("Numbers & Dates", 9, 2, "HH:MM:SS", 563),
      SetValue("Numbers & Dates", 10, 1, Val("text", "DateTime", 0), 565),
      SetValue("Numbers & Dates", 10, 2, Val("datetime", "2024-12-25 10:30:00", 0), 566),
      SetFormat("Numbers & Dates", 10, 2, "YYYY-MM-DD HH:MM", 567),
      SetValue("Numbers & Dates", 11, 1, Val("text", "Accounting", 0), 569),
      SetValue("Numbers & Dates", 11, 2, Val("float", "-1234.56", 0), 570),
      SetFormat("Numbers & Dates", 11, 2, "_($* #,##0.00_);_($* (#,##0.00);_($* \"-\"??_);_(@_)", 571),
      SetValue("Numbers & Dates", 12, 1, Val("text", "Fraction", 0), 573),
      SetValue("Numbers & Dates", 12, 2, Val("float", "0.5", 0), 574),
      SetFormat("Numbers & Dates", 12, 2, "# ?/?", 575)>>

V2Stmts ==
    V2ChartsSheet
    \o V2ImagesSheet
    \o V2ValidationSheet
    \o V2FormattingSheet
    \o V2StylesSheet
    \o V2LinksSheet
    \o V2NumbersSheet

(***************************************************************************)
(* generate_test_xlsx.py: create_kitchen_sink (every statement that makes a *)
(* sheet, writes a value, a font, a fill, a border, a number format or a   *)
(* link or merges cells, in the order they run, loops unrolled; of a border *)
(* the style of the sides it sets is kept), create_colors_only and         *)
(* create_large_file.                                                      *)
(***************************************************************************)
\* Lines 41-95: sheet "Fonts & Colors", the statements in the order they run.
KsFontsSheet ==
    <<NewSheet("Fonts & Colors", 41),
      SetValue("Fonts & Colors", 1, 1, Val("text", "Font & Color Tests", 0), 45),
      SetFont("Fonts & Colors", 1, 1, FontKw(16, TRUE, NoneS, None), 46),
      MergeCells("Fonts & Colors", 1, 1, 1, 5, 47),
      SetValue("Fonts & Colors", 3, 1, Val("text", "Calibri 11pt", 0), 55),
      SetFont("Fonts & Colors", 3, 1, Font("Calibri", 11, FALSE, FALSE, NoneS, FALSE, NoneS, None), 56),
      SetValue("Fonts & Colors", 4, 1, Val("text", "Arial 12pt", 0), 55),
      SetFont("Fonts & Colors", 4, 1, Font("Arial", 12, FALSE, FALSE, NoneS, FALSE, NoneS, None), 56),
      SetValue("Fonts & Colors", 5, 1, Val("text", "Times New Roman 11pt", 0), 55),
      SetFont("Fonts & Colors", 5, 1, Font("Times New Roman", 11, FALSE, FALSE, NoneS, FALSE, NoneS, None), 56),
      SetValue("Fonts & Colors", 6, 1, Val("text", "Verdana 10pt", 0), 55),
      SetFont("Fonts & Colors", 6, 1, Font("Verdana", 10, FALSE, FALSE, NoneS, FALSE, NoneS, None), 56),
      SetValue("Fonts & Colors", 7, 1, Val("text", "Courier New 11pt", 0), 55),
      SetFont("Fonts & Colors", 7, 1, Font("Courier New", 11, FALSE, FALSE, NoneS, FALSE, NoneS, None), 56),
      SetValue("Fonts & Colors", 8, 1, Val("text", "Georgia 11pt", 0), 55),
      SetFont("Fonts & Colors", 8, 1, Font("Georgia", 11, FALSE, FALSE, NoneS, FALSE, NoneS, None), 56),
      SetValue("Fonts & Colors", 3, 3, Val("text", "Bold", 0), 59),
      SetFont("Fonts & Colors", 3, 3, FontKw(0, TRUE, NoneS, None), 60),
      SetValue("Fonts & Colors", 4, 3, Val("text", "Italic", 0), 61),
      SetFont("Fonts & Colors", 4, 3, Font(NoneS, 0, FALSE, TRUE, NoneS, FALSE, NoneS, None), 62),
      SetValue("Fonts & Colors", 5, 3, Val("text", "Underline", 0), 63),
      SetFont("Fonts & Colors", 5, 3, FontKw(0, FALSE, "single", None), 64),
      SetValue("Fonts & Colors", 6, 3, Val("text", "Double Underline", 0), 65),
      SetFont("Fonts & Colors", 6, 3, FontKw(0, FALSE, "double", None), 66),
      SetValue("Fonts & Colors", 7, 3, Val("text", "Strikethrough", 0), 67),
      SetFont("Fonts & Colors", 7, 3, Font(NoneS, 0, FALSE, FALSE, NoneS, TRUE, NoneS, None), 68),
      SetValue("Fonts & Colors", 8, 3, Val("text", "Bold Italic", 0), 69),
      SetFont("Fonts & Colors", 8, 3, Font(NoneS, 0, TRUE, TRUE, NoneS, FALSE, NoneS, None), 70),
      SetValue("Fonts & Colors", 3, 5, Val("text", "Red", 0), 78),
      SetFont("Fonts & Colors", 3, 5, FontKw(0, FALSE, NoneS, ColorRgb(<<"F", "F", "0", "0", "0", "0">>)), 79),
      SetValue("Fonts & Colors", 4, 5, Val("text", "Green", 0), 78),
      SetFont("Fonts & Colors", 4, 5, FontKw(0, FALSE, NoneS, ColorRgb(<<"0", "0", "F", "F", "0", "0">>)), 79),
      SetValue("Fonts & Colors", 5, 5, Val("text", "Blue", 0), 78),
      SetFont("Fonts & Colors", 5, 5, FontKw(0, FALSE, NoneS, ColorRgb(<<"0", "0", "0", "0", "F", "F">>)), 79),
      SetValue("Fonts & Colors", 6, 5, Val("text", "Magenta", 0), 78),
      SetFont("Fonts & Colors", 6, 5, FontKw(0, FALSE, NoneS, ColorRgb(<<"F", "F", "0", "0", "F", "F">>)), 79),
      SetValue("Fonts & Colors", 7, 5, Val("text", "Cyan", 0), 78),
      SetFont("Fonts & Colors", 7, 5, FontKw(0, FALSE, NoneS, ColorRgb(<<"0", "0", "F", "F", "F", "F">>)), 79),
      SetValue("Fonts & Colors", 8, 5, Val("text", "Orange", 0), 78),
      SetFont("Fonts & Colors", 8, 5, FontKw(0, FALSE, NoneS, ColorRgb(<<"F", "F", "A", "5", "0", "0">>)), 79),
      SetValue("Fonts & Colors", 11, 1, Val("text", "Background Fills:", 0), 82),
      SetFont("Fonts & Colors", 11, 1, FontKw(0, TRUE, NoneS, None), 83),
      SetValue("Fonts & Colors", 12, 1, Val("text", "Fill 1", 0), 86),
      SetFill("Fonts & Colors", 12, 1, PatternFill(ColorRgb(RgbFFFF00), "solid"), 87),
      SetValue("Fonts & Colors", 12, 2, Val("text", "Fill 2", 0), 86),
      SetFill("Fonts & Colors", 12, 2, PatternFill(ColorRgb(<<"9", "0", "E", "E", "9", "0">>), "solid"), 87),
      SetValue("Fonts & Colors", 12, 3, Val("text", "Fill 3", 0), 86),
      SetFill("Fonts & Colors", 12, 3, PatternFill(ColorRgb(<<"A", "D", "D", "8", "E", "6">>), "solid"), 87),
      SetValue("Fonts & Colors", 12, 4, Val("text", "Fill 4", 0), 86),
      SetFill("Fonts & Colors", 12, 4, PatternFill(ColorRgb(<<"F", "F", "B", "6", "C", "1">>), "solid"), 87),
      SetValue("Fonts & Colors", 12, 5, Val("text", "Fill 5", 0), 86),
      SetFill("Fonts & Colors", 12, 5, PatternFill(ColorRgb(<<"D", "D", "A", "0", "D", "D">>), "solid"), 87),
      SetValue("Fonts & Colors", 12, 6, Val("text", "Fill 6", 0), 86),
      SetFill("Fonts & Colors", 12, 6, PatternFill(ColorRgb(<<"F", "0", "E", "6", "8", "C">>), "solid"), 87),
      SetValue("Fonts & Colors", 14, 1, Val("text", "Pattern Fills:", 0), 90),
      SetFont("Fonts & Colors", 14, 1, FontKw(0, TRUE, NoneS, None), 91),
      SetValue("Fonts & Colors", 15, 1, Val("text", "gray125", 0), 94),
      SetFill("Fonts & Colors", 15, 1, PatternFill(ColorRgb(Black6), "gray125"), 95),
      SetValue("Fonts & Colors", 15, 2, Val("text", "gray0625", 0), 94),
      SetFill("Fonts & Colors", 15, 2, PatternFill(ColorRgb(Black6), "gray0625"), 95),
      SetValue("Fonts & Colors", 15, 3, Val("text", "darkGray", 0), 94),
      SetFill("Fonts & Colors", 15, 3, PatternFill(ColorRgb(Black6), "darkGray"), 95),
      SetValue("Fonts & Colors", 15, 4, Val("text", "mediumGr", 0), 94),
      SetFill("Fonts & Colors", 15, 4, PatternFill(ColorRgb(Black6), "mediumGray"), 95),
      SetValue("Fonts & Colors", 15, 5, Val("text", "lightGra", 0), 94),
      SetFill("Fonts & Colors", 15, 5, PatternFill(ColorRgb(Black6), "lightGray"), 95),
      SetValue("Fonts & Colors", 15, 6, Val("text", "darkHori", 0), 94),
      SetFill("Fonts & Colors", 15, 6, PatternFill(ColorRgb(Black6), "darkHorizontal"), 95)>>

\* Lines 102-139: sheet "Borders", the statements in the order they run.
KsBordersSheet ==
    <<NewSheet("Borders", 102),
      SetValue("Borders", 1, 1, Val("text", "Border Tests", 0), 105),
      SetFont("Borders", 1, 1, FontKw(16, TRUE, NoneS, None), 106),
      MergeCells("Borders", 1, 1, 1, 5, 107),
      SetValue("Borders", 3, 2, Val("text", "thin", 0), 112),
      SetBorder("Borders", 3, 2, "thin", 114),
      SetValue("Borders", 4, 2, Val("text", "medium", 0), 112),
      SetBorder("Borders", 4, 2, "medium", 114),
      SetValue("Borders", 5, 2, Val("text", "thick", 0), 112),
      SetBorder("Borders", 5, 2, "thick", 114),
      SetValue("Borders", 6, 2, Val("text", "double", 0), 112),
      SetBorder("Borders", 6, 2, "double", 114),
      SetValue("Borders", 7, 2, Val("text", "dotted", 0), 112),
      SetBorder("Borders", 7, 2, "dotted", 114),
      SetValue("Borders", 8, 2, Val("text", "dashed", 0), 112),
      SetBorder("Borders", 8, 2, "dashed", 114),
      SetValue("Borders", 3, 4, Val("text", "Red Border", 0), 117),
      SetBorder("Borders", 3, 4, "medium", 118),
      SetValue("Borders", 5, 4, Val("text", "Mixed", 0), 125),
      SetBorder("Borders", 5, 4, "thick", 126),
      SetValue("Borders", 7, 4, Val("text", "Top only", 0), 134),
      SetBorder("Borders", 7, 4, "medium", 135),
      SetValue("Borders", 8, 4, Val("text", "Bottom only", 0), 136),
      SetBorder("Borders", 8, 4, "medium", 137),
      SetValue("Borders", 9, 4, Val("text", "Left+Right", 0), 138),
      SetBorder("Borders", 9, 4, "medium", 139)>>

\* Lines 148-191: sheet "Alignment", the statements in the order they run.
KsAlignmentSheet ==
    <<NewSheet("Alignment", 148),
      SetValue("Alignment", 1, 1, Val("text", "Alignment & Sizing", 0), 151),
      SetFont("Alignment", 1, 1, FontKw(16, TRUE, NoneS, None), 152),
      MergeCells("Alignment", 1, 1, 1, 5, 153),
      SetValue("Alignment", 3, 1, Val("text", "H: left", 0), 158),
      SetValue("Alignment", 3, 2, Val("text", "H: center", 0), 158),
      SetValue("Alignment", 3, 3, Val("text", "H: right", 0), 158),
      SetValue("Alignment", 3, 4, Val("text", "H: justify", 0), 158),
      SetValue("Alignment", 5, 1, Val("text", "V: top", 0), 165),
      SetValue("Alignment", 5, 2, Val("text", "V: center", 0), 165),
      SetValue("Alignment", 5, 3, Val("text", "V: bottom", 0), 165),
      SetValue("Alignment", 7, 1, Val("text", "This is a long text that should wrap to multiple lines in the cell", 0), 169),
      SetValue("Alignment", 7, 3, Val("text", "45 degrees", 0), 175),
      SetValue("Alignment", 7, 4, Val("text", "90 degrees", 0), 177),
      SetValue("Alignment", 7, 5, Val("text", "-45 degrees", 0), 179),
      SetValue("Alignment", 10, 1, Val("text", "This is a merged cell region", 0), 183),
      MergeCells("Alignment", 10, 1, 12, 3, 185),
      SetFill("Alignment", 10, 1, PatternFill(ColorRgb(RgbE8E8E8), "solid"), 186),
      SetValue("Alignment", 14, 1, Val("text", "Height: 15pt", 0), 191),
      SetValue("Alignment", 15, 1, Val("text", "Height: 25pt", 0), 191),
      SetValue("Alignment", 16, 1, Val("text", "Height: 35pt", 0), 191),
      SetValue("Alignment", 17, 1, Val("text", "Height: 45pt", 0), 191)>>

\* Lines 198-237: sheet "Numbers", the statements in the order they run.
KsNumbersSheet ==
    <<NewSheet("Numbers", 198),
      SetValue("Numbers", 1, 1, Val("text", "Number Formats", 0), 201),
      SetFont("Numbers", 1, 1, FontKw(16, TRUE, NoneS, None), 202),
      MergeCells("Numbers", 1, 1, 1, 4, 203),
      SetValue("Numbers", 3, 1, Val("text", "Value", 0), 221),
      SetValue("Numbers", 3, 2, Val("text", "Format", 0), 222),
      SetValue("Numbers", 3, 3, Val("text", "Result", 0), 223),
      SetFont("Numbers", 3, 1, FontKw(0, TRUE, NoneS, None), 224),
      SetFont("Numbers", 3, 2, FontKw(0, TRUE, NoneS, None), 224),
      SetFont("Numbers", 3, 3, FontKw(0, TRUE, NoneS, None), 224),
      SetValue("Numbers", 4, 1, Val("text", "1234.567", 0), 227),
      SetValue("Numbers", 4, 2, Val("text", "General", 0), 228),
      SetValue("Numbers", 4, 3, Val("float", "1234.567", 0), 229),
      SetFormat("Numbers", 4, 3, "General", 230),
      SetValue("Numbers", 5, 1, Val("text", "1234.567", 0), 227),
      SetValue("Numbers", 5, 2, Val("text", "Thousands", 0), 228),
      SetValue("Numbers", 5, 3, Val("float", "1234.567", 0), 229),
      SetFormat("Numbers", 5, 3, "#,##0.00", 230),
      SetValue("Numbers", 6, 1, Val("text", "0.4567", 0), 227),
      SetValue("Numbers", 6, 2, Val("text", "Percent", 0), 228),
      SetValue("Numbers", 6, 3, Val("float", "0.4567", 0), 229),
      SetFormat("Numbers", 6, 3, "0.00%", 230),
      SetValue("Numbers", 7, 1, Val("text", "1234.56", 0), 227),
      SetValue("Numbers", 7, 2, Val("text", "Currency", 0), 228),
      SetValue("Numbers", 7, 3, Val("float", "1234.56", 0), 229),
      SetFormat("Numbers", 7, 3, "$#,##0.00", 230),
      SetValue("Numbers", 8, 1, Val("text", "1234.56", 0), 227),
      SetValue("Numbers", 8, 2, Val("text", "Accounting", 0), 228),
      SetValue("Numbers", 8, 3, Val("float", "1234.56", 0), 229),
      SetFormat("Numbers", 8, 3, "\"$\"#,##0.00_);[Red](\"$\"#,##0.00)", 230),
      SetValue("Numbers", 9, 1, Val("text", "0.5", 0), 227),
      SetValue("Numbers", 9, 2, Val("text", "Fraction", 0), 228),
      SetValue("Numbers", 9, 3, Val("float", "0.5", 0), 229),
      SetFormat("Numbers", 9, 3, "# ?/?", 230),
      SetValue("Numbers", 10, 1, Val("text", "1234567", 0), 227),
      SetValue("Numbers", 10, 2, Val("text", "Scientific", 0), 228),
      SetValue("Numbers", 10, 3, Val("int", "", 1234567), 229),
      SetFormat("Numbers", 10, 3, "0.00E+00", 230),
      SetValue("Numbers", 11, 1, Val("text", "2024-03-15", 0), 227),
      SetValue("Numbers", 11, 2, Val("text", "Date ISO", 0), 228),
      SetValue("Numbers", 11, 3, Val("date", "2024-03-15", 0), 229),
      SetFormat("Numbers", 11, 3, "YYYY-MM-DD", 230),
      SetValue("Numbers", 12, 1, Val("text", "2024-03-15", 0), 227),
      SetValue("Numbers", 12, 2, Val("text", "Date US", 0), 228),
      SetValue("Numbers", 12, 3, Val("date", "2024-03-15", 0), 229),
      SetFormat("Numbers", 12, 3, "MM/DD/YYYY", 230),
      SetValue("Numbers", 13, 1, Val("text", "2024-03-15", 0), 227),
      SetValue("Numbers", 13, 2, Val("text", "Date Long", 0), 228),
      SetValue("Numbers", 13, 3, Val("date", "2024-03-15", 0), 229),
      SetFormat("Numbers", 13, 3, "DD-MMM-YYYY", 230),
      SetValue("Numbers", 14, 1, Val("text", "2024-03-15T14:30:00", 0), 227),
      SetValue("Numbers", 14, 2, Val("text", "Time", 0), 228),
      SetValue("Numbers", 14, 3, Val("datetime", "2024-03-15 14:30:00", 0), 229),
      SetFormat("Numbers", 14, 3, "HH:MM:SS", 230),
      SetValue("Numbers", 15, 1, Val("text", "2024-03-15T14:30:00", 0), 227),
      SetValue("Numbers", 15, 2, Val("text", "DateTime", 0), 228),
      SetValue("Numbers", 15, 3, Val("datetime", "2024-03-15 14:30:00", 0), 229),
      SetFormat("Numbers", 15, 3, "YYYY-MM-DD HH:MM", 230),
      SetValue("Numbers", 18, 1, Val("text", "Negative Numbers:", 0), 233),
      SetFont("Numbers", 18, 1, FontKw(0, TRUE, NoneS, None), 234),
      SetValue("Numbers", 19, 1, Val("float", "-1234.56", 0), 235),
      SetFormat("Numbers", 19, 1, "#,##0.00", 235),
      SetValue("Numbers", 19, 2, Val("float", "-1234.56", 0), 236),
      SetFormat("Numbers", 19, 2, "#,##0.00;[Red]-#,##0.00", 236),
      SetValue("Numbers", 19, 3, Val("float", "-1234.56", 0), 237),
      SetFormat("Numbers", 19, 3, "#,##0.00_);(#,##0.00)", 237)>>

\* Lines 244-270: sheet "Special", the statements in the order they run.
KsSpecialSheet ==
    <<NewSheet("Special", 244),
      SetValue("Special", 1, 1, Val("text", "Special Features", 0), 247),
      SetFont("Special", 1, 1, FontKw(16, TRUE, NoneS, None), 248),
      MergeCells("Special", 1, 1, 1, 4, 249),
      SetValue("Special", 3, 1, Val("text", "Hyperlinks:", 0), 252),
      SetFont("Special", 3, 1, FontKw(0, TRUE, NoneS, None), 253),
      SetValue("Special", 4, 1, Val("text", "Click me!", 0), 254),
      SetLink("Special", 4, 1, "", 255),
      SetFont("Special", 4, 1, FontKw(0, FALSE, "single", ColorRgb(Rgb0563C1)), 256),
      SetValue("Special", 6, 1, Val("text", "Comments:", 0), 259),
      SetFont("Special", 6, 1, FontKw(0, TRUE, NoneS, None), 260),
      SetValue("Special", 7, 1, Val("text", "Hover over me", 0), 261),
      SetValue("Special", 9, 1, Val("text", "This sheet has frozen panes (row 1)", 0), 265),
      SetValue("Special", 11, 1, Val("text", "Rich Text (simulated with formatting):", 0), 269),
      SetFont("Special", 11, 1, FontKw(0, TRUE, NoneS, None), 270)>>

\* Lines 275-276: sheet "Hidden Sheet", the statements in the order they run.
KsHiddenSheet ==
    <<NewSheet("Hidden Sheet", 275),
      SetValue("Hidden Sheet", 1, 1, Val("text", "This sheet is hidden", 0), 276)>>

\* The sheets in the order they are made.
KitchenStmts ==
    KsFontsSheet
    \o KsBordersSheet
    \o KsAlignmentSheet
    \o KsNumbersSheet
    \o KsSpecialSheet
    \o KsHiddenSheet

\* format(n, '02X') for 0 <= n <= 255.
Hex02X(n) == <<(Digits \o UpperHex)[(n \div 16) + 1], (Digits \o UpperHex)[(n % 16) + 1]>>

\* Line 365: format(int(255 * i / 9), '02X') * 3.
GrayHex(i) == LET h == Hex02X((255 * i) \div 9) IN h \o h \o h

Rainbow == <<<<"F", "F", "0", "0", "0", "0">>, <<"F", "F", "7", "F", "0", "0">>, <<"F", "F", "F", "F", "0", "0">>, <<"0", "0", "F", "F", "0", "0">>,
             <<"0", "0", "0", "0", "F", "F">>, <<"4", "B", "0", "0", "8", "2">>, <<"9", "4", "0", "0", "D", "3">>>>
ThemeColors ==
    <<<<<<"F", "F", "F", "F", "F", "F">>, <<"0", "0", "0", "0", "0", "0">>, <<"E", "7", "E", "6", "E", "6">>, <<"4", "4", "5", "4", "6", "A">>, <<"4", "4", "7", "2", "C", "4">>, <<"E", "D", "7", "D", "3", "1">>>>,
      <<<<"D", "0", "C", "E", "C", "E">>, <<"7", "F", "7", "F", "7", "F">>, <<"A", "E", "A", "A", "A", "A">>, <<"8", "4", "9", "7", "B", "0">>, <<"8", "F", "A", "A", "D", "C">>, <<"F", "4", "B", "1", "8", "3">>>>,
      <<<<"A", "5", "A", "5", "A", "5">>, <<"5", "9", "5", "9", "5", "9">>, <<"7", "5", "7", "1", "7", "1">>, <<"A", "C", "B", "9", "C", "A">>, <<"B", "4", "C", "6", "E", "7">>, <<"F", "8", "C", "B", "A", "D">>>>>>

GrayIsWhiteBelow6(i) == i < 6
\* Line 369: the grayscale cells that get a white font.
GrayIsWhite(i) == i < 5

\* Lines 358-361.
ColorsRainbow ==
    Loop(LAMBDA i : Loop(LAMBDA j : <<SetFill("Colors", j + 1, i + 1,
                                              PatternFill(ColorRgb(Rainbow[i + 1]), "solid"),
                                              361)>>, 0, 4), 0, 6)
\* Lines 364-370.
ColorsGray ==
    Loop(LAMBDA i : <<SetFill("Colors", 7, i + 1, PatternFill(ColorRgb(GrayHex(i)), "solid"), 367),
                      SetValue("Colors", 7, i + 1, Val("text", "#gray", i), 368)>>
                    \o (IF GrayIsWhite(i)
                        THEN <<SetFont("Colors", 7, i + 1,
                                       FontKw(0, FALSE, NoneS, ColorRgb(White6)), 370)>>
                        ELSE <<>>), 0, 9)
\* Lines 379-386.
ColorsTheme ==
    Loop(LAMBDA r : Loop(LAMBDA c :
            <<SetFill("Colors", r + 8, c, PatternFill(ColorRgb(ThemeColors[r][c]), "solid"), 382),
              SetFont("Colors", r + 8, c,
                      FontKw(0, FALSE, NoneS, ColorRgb(ThemeTextColor(ThemeColors[r][c]).color)),
                      385),
              SetValue("Colors", r + 8, c, Val("text", "#theme", c), 386)>>, 1, 6), 1, 3)

ColorsStmts == <<NewSheet("Colors", 351)>> \o ColorsRainbow \o ColorsGray \o ColorsTheme

\* Lines 294-298: the header row.
LargeHeader(cols) ==
    Loop(LAMBDA c : <<SetValue("Large Dataset", 1, c, Val("text", "Column", c), 295),
                      SetFont("Large Dataset", 1, c, FontKw(0, TRUE, NoneS, None), 296),
                      SetFill("Large Dataset", 1, c, PatternFill(ColorRgb(Rgb4472C4), "solid"), 297),
                      SetFont("Large Dataset", 1, c, FontKw(0, TRUE, NoneS, ColorRgb(White6)), 298)>>,
         1, cols)

\* Lines 305-327: one data cell.
LargeCell(r, c) ==
    (IF c = 1 THEN <<SetValue("Large Dataset", r, c, Val("int", "", r - 1), 309)>>
     ELSE IF c = 2 THEN <<SetValue("Large Dataset", r, c, Val("text", "Row", r - 1), 311)>>
     ELSE IF c % 3 = 0
          THEN <<SetValue("Large Dataset", r, c, Val("uniform", "", 10000), 313),
                 SetFormat("Large Dataset", r, c, "#,##0.00", 314)>>
     ELSE IF c % 3 = 1
          THEN <<SetValue("Large Dataset", r, c, Val("uniform", "", 1), 316),
                 SetFormat("Large Dataset", r, c, "0.00%", 317)>>
     ELSE <<SetValue("Large Dataset", r, c, RandomDate, 319),
            SetFormat("Large Dataset", r, c, "YYYY-MM-DD", 320)>>)
    \o (IF r % 2 = 0
        THEN <<SetFill("Large Dataset", r, c, PatternFill(ColorRgb(RgbF2F2F2), "solid"), 324)>>
        ELSE <<>>)
    \o (IF r % 10 = 0
        THEN <<SetFont("Large Dataset", r, c, FontKw(0, TRUE, NoneS, None), 327)>>
        ELSE <<>>)

LargeDataOneRowShort(rows, cols) ==
    Loop(LAMBDA r : Loop(LAMBDA c : LargeCell(r, c), 1, cols), 2, rows)
\* Lines 303-304: the data rows.
LargeData(rows, cols) ==
    Loop(LAMBDA r : Loop(LAMBDA c : LargeCell(r, c), 1, cols), 2, rows + 1)

LargeStmts(rows, cols) ==
    <<NewSheet("Large Dataset", 291)>> \o LargeHeader(cols) \o LargeData(rows, cols)

BuilderStmts(prog, rows, cols) ==
    IF prog = "v3" THEN V3Stmts
    ELSE IF prog = "v2" THEN V2Stmts
    ELSE IF prog = "kitchen" THEN KitchenStmts
    ELSE IF prog = "colors" THEN ColorsStmts
    ELSE LargeStmts(rows, cols)

(***************************************************************************)
(* generate_test_xlsx.py, update_manifest and the file names the           *)
(* generators save under.  The output directory is a map from file name    *)
(* to size in bytes.                                                       *)
(***************************************************************************)
\* str(n) of Python for an int.
RECURSIVE StrNat(_)
StrNat(n) == IF n < 10 THEN <<Digits[n + 1]>> ELSE StrNat(n \div 10) \o <<Digits[(n % 10) + 1]>>
Str(n) == IF n < 0 THEN <<"-">> \o StrNat(0 - n) ELSE StrNat(n)

\* Lines 280, 393 and 341: the names the generators save under.
V3Name == <<"k", "i", "t", "c", "h", "e", "n", "_", "s", "i", "n", "k", "_", "v", "3", ".", "x", "l", "s", "x">>
\* generate_kitchen_sink_v2.py line 630.
V2Name == <<"k", "i", "t", "c", "h", "e", "n", "_", "s", "i", "n", "k", "_", "v", "2", ".", "x", "l", "s", "x">>
KitchenName == <<"k", "i", "t", "c", "h", "e", "n", "_", "s", "i", "n", "k", ".", "x", "l", "s", "x">>
ColorsName == <<"c", "o", "l", "o", "r", "s", "_", "t", "e", "s", "t", ".", "x", "l", "s", "x">>
LargeName(rows, cols) ==
    <<"l", "a", "r", "g", "e", "_">> \o Str(rows) \o <<"x">> \o Str(cols) \o <<".", "x", "l", "s", "x">>
ManifestName == <<"m", "a", "n", "i", "f", "e", "s", "t", ".", "j", "s", "o", "n">>

\* The characters of file names in code-point order: str (and Path)
\* comparison is by code point.
CodeOrder == <<"-", ".", "0", "1", "2", "3", "4", "5", "6", "7", "8", "9",
             "A", "B", "C", "D", "E", "F", "G", "H", "I", "J", "K", "L",
             "M", "N", "O", "P", "Q", "R", "S", "T", "U", "V", "W", "X",
             "Y", "Z", "_", "a", "b", "c", "d", "e", "f", "g", "h", "i",
             "j", "k", "l", "m", "n", "o", "p", "q", "r", "s", "t", "u",
             "v", "w", "x", "y", "z">>
Ord(c) == IndexOf(CodeOrder, c)

\* a < b on texts.
NameLess(a, b) ==
    LET diff == {i \in 1..Min(Len(a), Len(b)) : a[i] # b[i]}
    IN  IF diff = {} THEN Len(a) < Len(b)
        ELSE \E i \in diff : (\A j \in diff : i <= j) /\ Ord(a[i]) < Ord(b[i])

RECURSIVE SortedDescending(_)
RECURSIVE Sorted(_)
SortedDescending(S) ==
    IF S = {} THEN <<>>
    ELSE LET m == CHOOSE x \in S : \A y \in S : x = y \/ NameLess(y, x)
         IN  <<m>> \o SortedDescending(S \ {m})
\* sorted(...) of line 400: the names in ascending order.
Sorted(S) ==
    IF S = {} THEN <<>>
    ELSE LET m == CHOOSE x \in S : \A y \in S : x = y \/ NameLess(x, y)
         IN  <<m>> \o Sorted(S \ {m})

\* OUTPUT_DIR.glob("*.xlsx"): the names that end in ".xlsx" (a leading dot
\* does not hide a name from Path.glob, and case matters).
MatchesXlsx(name) ==
    Len(name) >= 5 /\ SubSeq(name, Len(name) - 4, Len(name)) = <<".", "x", "l", "s", "x">>
Glob(files) == {n \in DOMAIN files : MatchesXlsx(n)}

\* The largest k with 20 * 2^k <= n, for n >= 20.
RECURSIVE Log2Over20(_)
Log2Over20(n) == IF n < 40 THEN 0 ELSE 1 + Log2Over20(n \div 2)

\* The tenths f"{size / unit:.1f}" prints, for size > unit.  size / unit is
\* the double nearest the quotient and .1f the decimal nearest that double,
\* ties to even.  Only a quotient n/20 with n odd lies midway between two
\* tenths: if 5 divides n it is a double and the tie goes to the even tenth;
\* otherwise the double lies above or below n/20 as the remainder of
\* n * 2^(50-k) by 5 is above or below 5/2 (k the binary exponent of n/20).
Tenths(size, unit) ==
    LET step == unit \div 10
        q    == size \div step
        rem  == size % step
        n    == size \div (step \div 2)
    IN  IF 2 * rem > step THEN q + 1
        ELSE IF 2 * rem < step THEN q
        ELSE IF n % 5 = 0 THEN (IF q % 2 = 0 THEN q ELSE q + 1)
        ELSE IF ((n % 5) * Pow2Mod(50 - Log2Over20(n), 5)) % 5 >= 3 THEN q + 1
        ELSE q
Fixed1(t) == Str(t \div 10) \o <<".", Digits[(t % 10) + 1]>>

SizeStrFrom1000(size) ==
    IF size >= 1000000 THEN Fixed1(Tenths(size, 1000000)) \o <<"M", "B">>
    ELSE IF size >= 1000 THEN Fixed1(Tenths(size, 1000)) \o <<"K", "B">>
    ELSE Str(size) \o <<"B">>
\* Lines 405-411: the human-readable size.
SizeStr(size) ==
    IF size > 1000000 THEN Fixed1(Tenths(size, 1000000)) \o <<"M", "B">>
    ELSE IF size > 1000 THEN Fixed1(Tenths(size, 1000)) \o <<"K", "B">>
    ELSE Str(size) \o <<"B">>

\* Lines 400-416: the list update_manifest builds.
ManifestEntries(files) ==
    LET names == Sorted(Glob(files))
    IN  [i \in 1..Len(names) |-> [name |-> names[i], size |-> SizeStr(files[names[i]])]]

OpenForAppend(prev) == prev
\* Line 419: open(manifest_path, "w") empties the file.
OpenForWrite(prev) == <<>>

(***************************************************************************)
(* State.  sw*: the v2 sweep over the workbook's cells, in iteration order.*)
(***************************************************************************)
VARIABLES
    swCells,    \* the cells: [value, fill, font]
    swIdx,      \* the cell the sweep handles next (1-based)
    swPc,       \* "sweep", "saved", or "raised" (an exception escaped)
    swDark,     \* per cell: has_dark_bg as the sweep left it, or "unset"
    swLum,      \* per cell: whether line 606 was evaluated
    swExc,      \* the exception that escaped, or NoExc
    swPass,     \* 1 in the first run of the sweep, 2 in a second run
    swFirst,    \* the cells as the first run left them (empty during it)
    thPc,       \* the theme-colour text choice: "todo", "done", "raised"
    thFont,     \* the font colour line 385 chose for the probe colour
    bdProg,     \* the builder that runs: "v3", "kitchen", "colors", "large"
    bdRows,     \* create_large_file's rows
    bdCols,     \* create_large_file's cols
    bdStmts,    \* the statements the builder executes, in order
    bdPc,       \* the statement the builder executes next (1-based)
    bdCells,    \* the workbook: <<sheet, row, col>> -> [value, fill, font, fmt]
    bdMerged,   \* the merged ranges: <<sheet, r1, c1, r2, c2>>
    bdDone,     \* "building", then (v3 only) "named", then "saved"
    bdFile,     \* the name of the file the builder saved, or the empty text
    bdNames,    \* the defined names registered in the workbook
    bdCaught,   \* the exception the named-range handler caught, or NoExc
    bdOut,      \* what the builder printed so far
    bdCharts,   \* the charts added, in order: <<class, grouping>>
    bdRules,    \* the conditional-formatting rules added: <<sheet, range, kind>>
    bdBorders,  \* cell key -> the style of the border set on the cell
    bdSheets,   \* the titles of the workbook's sheets, in order
    bdLinks,    \* cell key -> the hyperlink set on the cell
    fsDir,      \* whether the output directory exists
    fsFiles,    \* the files of the output directory but the manifest: name -> size
    mfExists,   \* whether manifest.json exists
    mfEntries,  \* the list manifest.json holds: [name, size]
    argOnly,    \* args.only: "kitchen", "large", "colors" or None
    argManifestOnly,    \* args.manifest_only
    argRows,    \* args.rows
    argCols,    \* args.cols
    mainPc,     \* "idle", "generate", "manifest", "done", "raised"
    mainQueue,  \* the generators main has still to call
    mainRan,    \* the generators main has called, in order
    mainSaved,  \* the names of the files this invocation saved
    mainExc,    \* the exception that ended main, or NoExc
    mainOut,    \* what the invocation printed, in order
    runs,       \* the invocations of main so far
    envActed,   \* whether something else changed the directory since main ended
    mfPrev,     \* the list the manifest held before update_manifest last ran
    prevClean,  \* whether the manifest then matched an unchanged directory
    dirty       \* whether the directory changed since update_manifest last ran

swVars == <<swCells, swIdx, swPc, swDark, swLum, swExc, swPass, swFirst>>
thVars == <<thPc, thFont>>
bdVars == <<bdProg, bdRows, bdCols, bdStmts, bdPc, bdCells, bdMerged, bdDone, bdFile, bdNames, bdCaught, bdOut,
           bdCharts, bdRules, bdBorders, bdSheets, bdLinks>>
fsVars == <<fsDir, fsFiles, mfExists, mfEntries>>
argVars == <<argOnly, argManifestOnly, argRows, argCols>>
histVars == <<mfPrev, prevClean, dirty>>
mnVars == <<fsVars, argVars, mainPc, mainQueue, mainRan, mainSaved, mainExc, mainOut, runs,
            envActed, histVars>>
vars == <<swCells, swIdx, swPc, swDark, swLum, swExc, swPass, swFirst, thPc, thFont,
          bdProg, bdRows, bdCols, bdStmts, bdPc, bdCells, bdMerged, bdDone, bdFile, bdNames, bdCaught, bdOut,
          bdCharts, bdRules, bdBorders, bdSheets, bdLinks, mnVars>>

\* A cell of the swept workbook: besides value, fill and font, its number
\* format, its border style and its horizontal alignment (NoneS: not set).
Cell(value, fill, font) ==
    [value |-> value, fill |-> fill, font |-> font,
     fmt |-> "General", border |-> NoneS, alignment |-> NoneS]
Styled(cell) == [cell EXCEPT !.fmt = "0.00", !.border = "thin", !.alignment = "center"]

\* Lines 591-627, one cell.  The fill is classified (lines 593-611) before
\* the font colour is read (lines 614-617): when that read raises, has_dark_bg
\* has its value already.
SweepCell ==
    /\ swPc = "sweep"
    /\ swIdx <= Len(swCells)
    /\ LET cell == swCells[swIdx]
           c    == Classify(cell.fill)
       IN  IF cell.value = NoneS
           THEN /\ swIdx' = swIdx + 1
                /\ UNCHANGED <<swCells, swPc, swDark, swLum, swExc, thVars, bdVars, mnVars>>
           ELSE IF c.exc # NoExc
           THEN /\ swPc' = "raised"
                /\ swExc' = c.exc
                /\ UNCHANGED <<swCells, swIdx, swDark, swLum, thVars, bdVars, mnVars>>
           ELSE IF FontColorRead(cell.font) # NoExc
           THEN /\ swDark' = [swDark EXCEPT ![swIdx] = IF c.dark THEN "dark" ELSE "light"]
                /\ swLum' = [swLum EXCEPT ![swIdx] = c.lum]
                /\ swPc' = "raised"
                /\ swExc' = FontColorRead(cell.font)
                /\ UNCHANGED <<swCells, swIdx, thVars, bdVars, mnVars>>
           ELSE /\ swDark' = [swDark EXCEPT ![swIdx] = IF c.dark THEN "dark" ELSE "light"]
                /\ swLum' = [swLum EXCEPT ![swIdx] = c.lum]
                /\ swCells' = [swCells EXCEPT ![swIdx].font =
                                  IF NeedsBlack(@, c.dark) THEN BlackFontLike(@) ELSE @]
                /\ swIdx' = swIdx + 1
                /\ UNCHANGED <<swPc, swExc, thVars, bdVars, mnVars>>
    /\ UNCHANGED <<swPass, swFirst>>

\* Line 631: wb.save after the last cell.
SweepSave ==
    /\ swPc = "sweep"
    /\ swIdx > Len(swCells)
    /\ swPc' = "saved"
    /\ UNCHANGED <<swCells, swIdx, swDark, swLum, swExc, swPass, swFirst, thVars, bdVars, mnVars>>

\* The sweep of lines 588-627 run once more on the workbook it left.
SweepAgain ==
    /\ swPc = "saved"
    /\ swPass = 1
    /\ swPass' = 2
    /\ swFirst' = swCells
    /\ swIdx' = 1
    /\ swPc' = "sweep"
    /\ swDark' = [i \in DOMAIN swCells |-> "unset"]
    /\ swLum' = [i \in DOMAIN swCells |-> FALSE]
    /\ UNCHANGED <<swCells, swExc, thVars, bdVars, mnVars>>

\* create_colors_only lines 382-385 applied to the probe cell's colour text,
\* once the sweep has ended.
ThemeChoice ==
    /\ swPc # "sweep"
    /\ thPc = "todo"
    /\ swCells[1].fill.kind = "pattern"
    /\ swCells[1].fill.rgb # None
    /\ LET t == ThemeTextColor(swCells[1].fill.rgb)
       IN  /\ thPc' = IF t.exc = NoExc THEN "done" ELSE "raised"
           /\ thFont' = IF t.exc = NoExc THEN ColorRgb(t.color) ELSE thFont
    /\ UNCHANGED <<swVars, bdVars, mnVars>>

(***************************************************************************)
(* The builders' actions: one per kind of statement, and the save.         *)
(***************************************************************************)
EmptyCell == [value |-> NoVal, fill |-> DefaultFill, font |-> DefaultFont, fmt |-> "General"]
CellAt(cells, k) == IF k \in DOMAIN cells THEN cells[k] ELSE EmptyCell
Put(cells, k, c) == [x \in DOMAIN cells \cup {k} |-> IF x = k THEN c ELSE cells[x]]

BdAt(op) ==
    /\ bdDone = "building"
    /\ bdPc <= Len(bdStmts)
    /\ bdStmts[bdPc].op = op
BdKey == <<bdStmts[bdPc].sheet, bdStmts[bdPc].row, bdStmts[bdPc].col>>

\* random.randint(0, 4), random.randint(1, 12), random.randint(1, 28): the
\* values that can be drawn.
RandYearOffsets == 0..4
RandMonths == 1..12
\* Days drawn up to the length of the longest month.
RandDaysTo31 == 1..31
RandDays == 1..28

\* datetime.date(y, m, d) raises ValueError unless d is a day of month m of
\* year y.
IsLeap(y) == y % 4 = 0 /\ (y % 100 # 0 \/ y % 400 = 0)
DaysInMonth(y, m) ==
    IF m = 2 THEN (IF IsLeap(y) THEN 29 ELSE 28)
    ELSE IF m \in {4, 6, 9, 11} THEN 30 ELSE 31

\* Whether the cell at k = <<sheet, row, col>> lies in the range rng =
\* <<r1, c1, r2, c2>> of the sheet.
InRange(k, sheet, rng) ==
    k[1] = sheet /\ k[2] \in rng[1]..rng[3] /\ k[3] \in rng[2]..rng[4]
\* Whether the cells at k and at the top-left corner of the merged region m
\* are one cell.
IsAnchor(k, m) == k[2] = m[2] /\ k[3] = m[3]
\* ws.merge_cells leaves a MergedCell at every place of the region but the
\* top-left one: whether k is such a place.
IsMergedCell(k, merged) ==
    \E m \in merged : InRange(k, m[1], <<m[2], m[3], m[4], m[5]>>) /\ ~IsAnchor(k, m)

\* cell.value = ... (a date is drawn at random and constructed, line 319).
\* The value of a MergedCell is read-only: assigning it raises
\* AttributeError.
DoSetValue ==
    /\ BdAt("value")
    /\ IF IsMergedCell(BdKey, bdMerged)
       THEN /\ bdDone' = "raised"
            /\ UNCHANGED <<bdCells, bdPc>>
       ELSE IF bdStmts[bdPc].val = RandomDate
       THEN \E yo \in RandYearOffsets, mo \in RandMonths, dy \in RandDays :
               IF dy > DaysInMonth(2020 + yo, mo)
               THEN /\ bdDone' = "raised"
                    /\ UNCHANGED <<bdCells, bdPc>>
               ELSE /\ bdCells' = Put(bdCells, BdKey,
                                      [CellAt(bdCells, BdKey) EXCEPT !.value =
                                          [bdStmts[bdPc].val EXCEPT !.y = 2020 + yo, !.m = mo,
                                                                    !.d = dy]])
                    /\ bdPc' = bdPc + 1
                    /\ UNCHANGED bdDone
       ELSE /\ bdCells' = Put(bdCells, BdKey,
                              [CellAt(bdCells, BdKey) EXCEPT !.value = bdStmts[bdPc].val])
            /\ bdPc' = bdPc + 1
            /\ UNCHANGED bdDone
    /\ UNCHANGED <<bdProg, bdRows, bdCols, bdStmts, bdMerged, bdFile, bdNames, bdCaught, bdOut, bdCharts, bdRules, bdBorders, bdSheets, bdLinks,
                   swVars, thVars, mnVars>>

\* cell.font = Font(...)
DoSetFont ==
    /\ BdAt("font")
    /\ bdCells' = Put(bdCells, BdKey, [CellAt(bdCells, BdKey) EXCEPT !.font = bdStmts[bdPc].font])
    /\ bdPc' = bdPc + 1
    /\ UNCHANGED <<bdProg, bdRows, bdCols, bdStmts, bdMerged, bdDone, bdFile, bdNames, bdCaught, bdOut, bdCharts, bdRules, bdBorders, bdSheets, bdLinks,
                   swVars, thVars, mnVars>>

\* cell.fill = PatternFill(...)
DoSetFill ==
    /\ BdAt("fill")
    /\ bdCells' = Put(bdCells, BdKey, [CellAt(bdCells, BdKey) EXCEPT !.fill = bdStmts[bdPc].fill])
    /\ bdPc' = bdPc + 1
    /\ UNCHANGED <<bdProg, bdRows, bdCols, bdStmts, bdMerged, bdDone, bdFile, bdNames, bdCaught, bdOut, bdCharts, bdRules, bdBorders, bdSheets, bdLinks,
                   swVars, thVars, mnVars>>

\* cell.number_format = ...
DoSetFormat ==
    /\ BdAt("format")
    /\ bdCells' = Put(bdCells, BdKey, [CellAt(bdCells, BdKey) EXCEPT !.fmt = bdStmts[bdPc].fmt])
    /\ bdPc' = bdPc + 1
    /\ UNCHANGED <<bdProg, bdRows, bdCols, bdStmts, bdMerged, bdDone, bdFile, bdNames, bdCaught, bdOut, bdCharts, bdRules, bdBorders, bdSheets, bdLinks,
                   swVars, thVars, mnVars>>

\* ws.merge_cells(range): the range is recorded and every cell of it but the
\* top-left one is replaced by an empty merged cell.
DoMerge ==
    /\ BdAt("merge")
    /\ LET st == bdStmts[bdPc]
           gone == {k \in DOMAIN bdCells : InRange(k, st.sheet, st.rng) /\ k # BdKey}
       IN  /\ bdMerged' = bdMerged \cup {<<st.sheet>> \o st.rng}
           /\ bdCells' = [k \in DOMAIN bdCells \ gone |-> bdCells[k]]
    /\ bdPc' = bdPc + 1
    /\ UNCHANGED <<bdProg, bdRows, bdCols, bdStmts, bdDone, bdFile, bdNames, bdCaught, bdOut, bdCharts, bdRules, bdBorders, bdSheets, bdLinks,
                   swVars, thVars, mnVars>>

\* wb.create_sheet(title), or the rename of the first sheet.
DoNewSheet ==
    /\ BdAt("sheet")
    /\ bdSheets' = Append(bdSheets, bdStmts[bdPc].sheet)
    /\ bdPc' = bdPc + 1
    /\ UNCHANGED <<bdProg, bdRows, bdCols, bdStmts, bdCells, bdMerged, bdDone, bdFile, bdNames,
                   bdCaught, bdOut, bdCharts, bdRules, bdBorders, bdLinks, swVars, thVars, mnVars>>

\* cell.hyperlink = ...
DoSetLink ==
    /\ BdAt("link")
    /\ bdLinks' = Put(bdLinks, BdKey, bdStmts[bdPc].name)
    /\ bdPc' = bdPc + 1
    /\ UNCHANGED <<bdProg, bdRows, bdCols, bdStmts, bdCells, bdMerged, bdDone, bdFile, bdNames,
                   bdCaught, bdOut, bdCharts, bdRules, bdBorders, bdSheets, swVars, thVars, mnVars>>

\* The file name of output_path (v3 line 1040; lines 280, 393, 341).
OutputName(prog, rows, cols) ==
    IF prog = "v3" THEN V3Name
    ELSE IF prog = "v2" THEN V2Name
    ELSE IF prog = "kitchen" THEN KitchenName
    ELSE IF prog = "colors" THEN ColorsName
    ELSE LargeName(rows, cols)

\* cell.border = Border(...)
DoSetBorder ==
    /\ BdAt("border")
    /\ bdBorders' = Put(bdBorders, BdKey, bdStmts[bdPc].name)
    /\ bdPc' = bdPc + 1
    /\ UNCHANGED <<bdProg, bdRows, bdCols, bdStmts, bdCells, bdMerged, bdDone, bdFile, bdNames,
                   bdCaught, bdOut, bdCharts, bdRules, bdSheets, bdLinks,
                   swVars, thVars, mnVars>>

\* ws.conditional_formatting.add(range, rule)
DoAddRule ==
    /\ BdAt("rule")
    /\ bdRules' = Append(bdRules, <<bdStmts[bdPc].sheet, bdStmts[bdPc].rng, bdStmts[bdPc].name>>)
    /\ bdPc' = bdPc + 1
    /\ UNCHANGED <<bdProg, bdRows, bdCols, bdStmts, bdCells, bdMerged, bdDone, bdFile, bdNames,
                   bdCaught, bdOut, bdCharts, bdBorders, bdSheets, bdLinks,
                   swVars, thVars, mnVars>>

\* ws.add_chart(chart, anchor)
DoAddChart ==
    /\ BdAt("chart")
    /\ bdCharts' = Append(bdCharts, <<bdStmts[bdPc].name, bdStmts[bdPc].fmt>>)
    /\ bdPc' = bdPc + 1
    /\ UNCHANGED <<bdProg, bdRows, bdCols, bdStmts, bdCells, bdMerged, bdDone, bdFile, bdNames,
                   bdCaught, bdOut, bdRules, bdBorders, bdSheets, bdLinks,
                   swVars, thVars, mnVars>>

\* What can go wrong in wb.defined_names.add(DefinedName(...)): the attribute
\* or method is missing in the installed openpyxl, or the name is rejected.
NameFaults == {"AttributeError", "ValueError", "TypeError"}

\* The two registrations, in the order of the try block.
RangeNames == <<"TestRange", "ChartData">>

\* A reference to the first sheet under the title it had before line 73.
NamedRefUntitled(name) ==
    IF name = "TestRange" THEN [sheet |-> "Sheet", rng |-> <<4, 1, 22, 3>>]
    ELSE [sheet |-> "Charts", rng |-> <<1, 1, 5, 4>>]
\* Lines 1028 and 1031: the attr_text of the names,
\* 'Pattern Fills'!$A$4:$C$22 and Charts!$A$1:$D$5, as the sheet and
\* <<first row, first column, last row, last column>>.
NamedRef(name) ==
    IF name = "TestRange" THEN [sheet |-> "Pattern Fills", rng |-> <<4, 1, 22, 3>>]
    ELSE [sheet |-> "Charts", rng |-> <<1, 1, 5, 4>>]

\* except Exception: raise -- a handler that lets the failure out.
Reraised(exc) == "raised"

\* except Exception: pass
Swallowed(exc) == "named"

\* try: add TestRange; add ChartData / except Exception: pass.  The k-th
\* registration may fail (k = 0: none does); those before it are kept and
\* those after it are not attempted.
DefineNames ==
    /\ bdProg = "v3"
    /\ bdDone = "building"
    /\ bdPc > Len(bdStmts)
    /\ \E k \in 0..Len(RangeNames) :
          IF k = 0
          THEN /\ bdNames' = {RangeNames[i] : i \in 1..Len(RangeNames)}
               /\ bdCaught' = NoExc
               /\ bdDone' = "named"
          ELSE \E exc \in NameFaults :
               /\ bdNames' = {RangeNames[i] : i \in 1..(k - 1)}
               /\ bdCaught' = exc
               /\ bdDone' = Swallowed(exc)
    /\ UNCHANGED <<bdProg, bdRows, bdCols, bdStmts, bdPc, bdCells, bdMerged, bdFile, bdOut,
                   bdCharts, bdRules, bdBorders, bdSheets, bdLinks,
                   swVars, thVars, mnVars>>

\* ws.iter_rows() of every sheet of wb.worksheets in turn: whether the
\* cell at a comes before the cell at b.
SheetIndex(title) == CHOOSE i \in 1..Len(bdSheets) : bdSheets[i] = title
ComesBefore(a, b) ==
    \/ SheetIndex(a[1]) < SheetIndex(b[1])
    \/ a[1] = b[1] /\ (a[2] < b[2] \/ (a[2] = b[2] /\ a[3] < b[3]))
\* Lines 591-617 for one cell of the workbook built: the exception that
\* ends the sweep at the cell, or NoExc.
SweepFault(cell) ==
    IF cell.value = NoVal THEN NoExc
    ELSE IF Classify(cell.fill).exc # NoExc THEN Classify(cell.fill).exc
    ELSE FontColorRead(cell.font)
\* Lines 591-627 for one cell: the cell the sweep leaves.
SweptCell(cell) ==
    IF cell.value # NoVal /\ NeedsBlack(cell.font, Classify(cell.fill).dark)
    THEN [cell EXCEPT !.font = BlackFontLike(@)]
    ELSE cell

\* generate_kitchen_sink_v2.py lines 588-627: the sweep over every cell of
\* the workbook built, before the save.  An exception ends it at the first
\* cell that raises; the cells before it are swept.
DoSweep ==
    /\ bdProg = "v2"
    /\ bdDone = "building"
    /\ bdPc > Len(bdStmts)
    /\ LET faults == {k \in DOMAIN bdCells : SweepFault(bdCells[k]) # NoExc}
           first  == {k \in faults : \A j \in faults : j = k \/ ComesBefore(k, j)}
       IN  IF faults = {}
           THEN /\ bdCells' = [k \in DOMAIN bdCells |-> SweptCell(bdCells[k])]
                /\ bdDone' = "swept"
           ELSE /\ bdCells' = [k \in DOMAIN bdCells |->
                                  IF \E f \in first : ComesBefore(k, f)
                                  THEN SweptCell(bdCells[k]) ELSE bdCells[k]]
                /\ bdDone' = "raised"
    /\ UNCHANGED <<bdProg, bdRows, bdCols, bdStmts, bdPc, bdMerged, bdFile, bdNames, bdCaught,
                   bdOut, bdCharts, bdRules, bdBorders, bdSheets, bdLinks, swVars, thVars, mnVars>>

\* Lines 330-331: create_large_file prints a line for every row r of
\* 2..rows+1 with r % 1000 = 0.
ProgressLines(rows) ==
    [i \in 1..(IF rows + 1 >= 1000 THEN (rows + 1) \div 1000 ELSE 0) |-> "Generated"]
\* What generator g has printed when it reaches OUTPUT_DIR.mkdir.
GeneratorOutput(g, rows) == IF g = "large" THEN ProgressLines(rows) ELSE <<>>

\* wb.save(output_path), print "Created", and in v3 the summary.
BuildSave ==
    /\ bdDone = (IF bdProg = "v3" THEN "named" ELSE IF bdProg = "v2" THEN "swept" ELSE "building")
    /\ bdPc > Len(bdStmts)
    /\ bdDone' = "saved"
    /\ bdFile' = OutputName(bdProg, bdRows, bdCols)
    /\ bdOut' = bdOut \o GeneratorOutput(bdProg, bdRows) \o <<"Created">>
                     \o (IF bdProg \in {"v3", "v2"} THEN <<"Summary">> ELSE <<>>)
    /\ UNCHANGED <<bdProg, bdRows, bdCols, bdStmts, bdPc, bdCells, bdMerged, bdNames, bdCaught,
                   bdCharts, bdRules, bdBorders, bdSheets, bdLinks,
                   swVars, thVars, mnVars>>

(***************************************************************************)
(* generate_test_xlsx.py, main: one invocation is MainStart, the selected  *)
(* generators in order, then update_manifest.  Between invocations the     *)
(* directory may change by other hands.                                    *)
(***************************************************************************)
MaxRuns == 2
OnlySample == {NoneS, "kitchen", "large", "colors"}
RowsSample == {5000, -1}
ColsSample == {20}
\* The sizes a saved workbook may have, and the files other hands write.
SizeSample == {1050, 1250000}
\* The kitchen-sink and colors workbooks have fixed content, the large one
\* random content: their sizes in the model.
KitchenSizes == {1250000}
ColorsSizes == {1050}
EnvNames == {<<"Z", "e", "b", "r", "a", ".", "x", "l", "s", "x">>, <<"n", "o", "t", "e", "s", ".", "t", "x", "t">>}
EnvSizes == {1000}

SelectedLargeSecond(only) ==
    IF only = "kitchen" THEN <<"kitchen">>
    ELSE IF only = "large" THEN <<"large">>
    ELSE IF only = "colors" THEN <<"colors">>
    ELSE <<"kitchen", "large", "colors">>
\* Lines 442-452: the generators main calls, in order.
Selected(only) ==
    IF only = "kitchen" THEN <<"kitchen">>
    ELSE IF only = "large" THEN <<"large">>
    ELSE IF only = "colors" THEN <<"colors">>
    ELSE <<"kitchen", "colors", "large">>

CaughtAndIgnored(exc) == "generate"
\* Lines 424-457: main has no try statement, an exception ends it.
Uncaught(exc) == "raised"

PlanWithoutFlag(mo, only) == Selected(only)
\* Lines 438-452: with --manifest-only main calls no generator.
Plan(mo, only) == IF mo THEN <<>> ELSE Selected(only)

ManifestAfterEachCall(queue) == "manifest"
\* Lines 442-455: update_manifest follows the last generator call.
NextStep(queue) == IF queue = <<>> THEN "manifest" ELSE "generate"

\* Lines 425-440: parse the arguments; --manifest-only skips the generators.
MainStart ==
    /\ mainPc \in {"idle", "done", "raised"}
    /\ runs < MaxRuns
    /\ \E only \in OnlySample, mo \in BOOLEAN, rows \in RowsSample, cols \in ColsSample :
          /\ argOnly' = only
          /\ argManifestOnly' = mo
          /\ argRows' = rows
          /\ argCols' = cols
          /\ mainPc' = NextStep(Plan(mo, only))
          /\ mainQueue' = Plan(mo, only)
    /\ mainRan' = <<>>
    /\ mainSaved' = {}
    /\ mainExc' = NoExc
    /\ mainOut' = <<"Output directory">>
    /\ runs' = runs + 1
    /\ envActed' = FALSE
    /\ UNCHANGED <<fsVars, histVars, swVars, thVars, bdVars>>

\* main is about to call generator g.
Calls(g) == mainPc = "generate" /\ mainQueue # <<>> /\ Head(mainQueue) = g
\* The end of a generator: OUTPUT_DIR.mkdir(exist_ok=True) and
\* wb.save(output_path); main goes on to the next call.
Saves(g, name, sizes) ==
    /\ fsDir' = TRUE
    /\ \E size \in sizes : fsFiles' = Put(fsFiles, name, size)
    /\ mainQueue' = Tail(mainQueue)
    /\ mainRan' = Append(mainRan, g)
    /\ mainSaved' = mainSaved \cup {name}
    /\ mainOut' = mainOut \o GeneratorOutput(g, argRows) \o <<"Created">>
    /\ mainPc' = NextStep(Tail(mainQueue))
    /\ dirty' = TRUE
    /\ UNCHANGED <<mfExists, mfEntries, argVars, mainExc, runs, envActed, mfPrev, prevClean,
                   swVars, thVars, bdVars>>
\* Lines 279-282, 392-395 and 340-343.
CreateKitchenSink ==
    /\ Calls("kitchen")
    /\ Saves("kitchen", KitchenName, KitchenSizes)
CreateColorsOnly ==
    /\ Calls("colors")
    /\ Saves("colors", ColorsName, ColorsSizes)
CreateLargeFile ==
    /\ Calls("large")
    /\ Saves("large", LargeName(argRows, argCols), SizeSample)

\* Lines 398-421, then main returns (lines 440, 457).  Opening the manifest
\* for writing fails when the directory does not exist.
UpdateManifest ==
    /\ mainPc = "manifest"
    /\ IF fsDir
       THEN /\ mfEntries' = OpenForWrite(mfEntries) \o ManifestEntries(fsFiles)
            /\ mfExists' = TRUE
            /\ mainPc' = "done"
            /\ mainOut' = mainOut \o <<"Updated">>
                              \o (IF argManifestOnly THEN <<>> ELSE <<"Done!">>)
            /\ mfPrev' = mfEntries
            /\ prevClean' = (mfExists /\ ~dirty)
            /\ dirty' = FALSE
            /\ UNCHANGED mainExc
       ELSE /\ mainPc' = Uncaught("FileNotFoundError")
            /\ mainExc' = "FileNotFoundError"
            /\ UNCHANGED <<mfEntries, mfExists, histVars, mainOut>>
    /\ UNCHANGED <<fsDir, fsFiles, argVars, mainQueue, mainRan, mainSaved, runs, envActed,
                   swVars, thVars, bdVars>>

\* A generator fails: OUTPUT_DIR.mkdir or wb.save raises OSError (the
\* directory may have been created by then); nothing is saved.  The
\* progress lines of create_large_file are printed by then.
GeneratorRaises ==
    /\ mainPc = "generate"
    /\ mainQueue # <<>>
    /\ \E atSave \in BOOLEAN : fsDir' = (fsDir \/ atSave)
    /\ mainPc' = Uncaught("OSError")
    /\ mainExc' = "OSError"
    /\ mainOut' = mainOut \o GeneratorOutput(Head(mainQueue), argRows)
    /\ UNCHANGED <<fsFiles, mfExists, mfEntries, argVars, mainQueue, mainRan, mainSaved,
                   runs, envActed, histVars, swVars, thVars, bdVars>>

\* Other hands, while main does not run: a file is written or removed.
EnvIdle == mainPc \in {"idle", "done", "raised"} /\ ~envActed
EnvWrite ==
    /\ EnvIdle
    /\ fsDir
    /\ \E n \in EnvNames, size \in EnvSizes : fsFiles' = Put(fsFiles, n, size)
    /\ dirty' = TRUE
    /\ envActed' = TRUE
    /\ UNCHANGED <<fsDir, mfExists, mfEntries, argVars, mainPc, mainQueue, mainRan, mainSaved,
                   mainExc, mainOut, runs, mfPrev, prevClean, swVars, thVars, bdVars>>
EnvRemove ==
    /\ EnvIdle
    /\ \E n \in DOMAIN fsFiles : fsFiles' = [m \in DOMAIN fsFiles \ {n} |-> fsFiles[m]]
    /\ dirty' = TRUE
    /\ envActed' = TRUE
    /\ UNCHANGED <<fsDir, mfExists, mfEntries, argVars, mainPc, mainQueue, mainRan, mainSaved,
                   mainExc, mainOut, runs, mfPrev, prevClean, swVars, thVars, bdVars>>

(***************************************************************************)
(* Inputs of the sweep: one probe cell followed by a fixed second cell.    *)
(***************************************************************************)
MaxColourLen == 8

ByteSample == {<<"0", "0">>, <<"0", "8">>, <<"4", "8">>, <<"8", "0">>,
               <<"C", "8">>, <<"F", "F">>}
Colours6 == {a \o b \o c : a \in ByteSample, b \in ByteSample, c \in ByteSample}
Prefixes == {<<"#">>, <<"0", "0">>, <<"F", "F">>}
GarbledAlphabet == {"0", "F", "Z"}
Texts(n) == UNION {[1..k -> GarbledAlphabet] : k \in 0..n}
SignedTexts == [1..6 -> {"-", "F"}]

\* Colours whose luminance sum is exactly 128.0 in double arithmetic.
Exact128Sample == {<<"0", "1", "B", "D", "9", "3">>, <<"7", "D", "6", "B", "F", "4">>,
                   <<"F", "C", "2", "E", "E", "1">>}
\* Texts with white space among the hexadecimal digits.
SpacedSample == {<<"0", "\t", "0", "\t", "0", "\t">>, <<"\n", "F", "\r", "F", "\f", "F">>,
                 <<"F", "F", " ", "\t", "F", "F">>, <<" ", "F", "F", " ", "F", "\n">>,
                 <<VerticalTab, "F", VerticalTab, "F", VerticalTab, "F">>,
                 <<"0", NextLine, "0", NoBreakSpace, VerticalTab, "0">>,
                 <<"F", "F", VerticalTab, NextLine, "F", "F">>}
\* One character of each kind int() tells apart: hexadecimal digits, other
\* letters, signs, underscore, the x of a prefix, white space of each width
\* and decimal digits of other scripts.
ChannelAlphabet ==
    {"0", "F", "a", "Z", "g", "+", "-", "_", "x", "#", " ", "\t", VerticalTab, NoBreakSpace,
     OghamSpace, WideDigits[1][4], WideDigits[2][4], WideDigits[18][10]}
\* Texts in which one channel is any pair over that alphabet (or, in a text
\* of five characters, the last channel is any one character of it).
ChannelTexts ==
    {<<a, b, "8", "0", "8", "0">> : a \in ChannelAlphabet, b \in ChannelAlphabet}
        \cup {<<"8", "0", a, b, "8", "0">> : a \in ChannelAlphabet, b \in ChannelAlphabet}
        \cup {<<"8", "0", "8", "0", a, b>> : a \in ChannelAlphabet, b \in ChannelAlphabet}
        \cup {<<"8", "0", "8", "0", a>> : a \in ChannelAlphabet}
SentinelInputs == {<<"#">> \o White6, <<"#">> \o white6, White6, white6, None}
FillRgbInputs ==
    SentinelInputs \cup Colours6 \cup Exact128Sample \cup SpacedSample \cup {p \o c : p \in Prefixes, c \in Colours6}
        \cup Texts(MaxColourLen) \cup SignedTexts \cup ChannelTexts

PlainFont(color) == Font(NoneS, 0, FALSE, FALSE, NoneS, FALSE, NoneS, color)
RichFont(color) == Font("Arial", 14, TRUE, TRUE, "single", TRUE, "superscript", color)

FontColorInputs ==
    {None, ThemeColor, White6 \o <<"F", "F">>, ColorRgb(White6), White6,
     ColorRgb(<<"F", "F", "0", "0", "0", "0">>), ColorRgb(Black6)}
FontInputs == {PlainFont(c) : c \in FontColorInputs} \cup {RichFont(c) : c \in FontColorInputs}

FillInputs ==
    {DefaultFill, GradientFill, PatternFill(None, "solid"), PatternFill(White6, "solid"),
     PatternFill(ColorRgb(White6), "solid"), PatternFill(ColorRgb(Black6), "solid"),
     PatternFill(ColorRgb(<<"4", "4", "7", "2", "C", "4">>), "solid"),
     PatternFill(ColorRgb(<<"F", "F", "F", "F", "0", "0">>), "solid")}

ProbeCells ==
    {Cell("text", PatternFill(rgb, "solid"), PlainFont(ColorRgb(White6))) : rgb \in FillRgbInputs}
        \cup {Cell(v, f, font) : v \in {"text", NoneS}, f \in FillInputs, font \in FontInputs}
        \cup {Styled(Cell(v, f, font)) :
                 v \in {"text", NoneS},
                 f \in {DefaultFill, PatternFill(ColorRgb(White6), "solid"),
                        PatternFill(ColorRgb(Black6), "solid")},
                 font \in FontInputs}

TrailerCell == Cell("text", PatternFill(ColorRgb(<<"F", "F", "F", "F", "0", "0">>), "solid"),
                    Font(NoneS, 0, TRUE, FALSE, NoneS, FALSE, NoneS, None))

\* The parts of the state a specification leaves alone.
SweepIdle ==
    /\ swCells = <<>> /\ swIdx = 1 /\ swPc = "idle" /\ swDark = <<>> /\ swLum = <<>>
    /\ swExc = NoExc /\ swPass = 1 /\ swFirst = <<>> /\ thPc = "idle" /\ thFont = None
BuildIdle ==
    /\ bdProg = "idle" /\ bdRows = 0 /\ bdCols = 0 /\ bdStmts = <<>> /\ bdPc = 1
    /\ bdCells = <<>> /\ bdMerged = {} /\ bdDone = "idle" /\ bdFile = <<>>
    /\ bdNames = {} /\ bdCaught = NoExc /\ bdOut = <<>>
    /\ bdCharts = <<>> /\ bdRules = <<>> /\ bdBorders = <<>>
    /\ bdSheets = <<>> /\ bdLinks = <<>>
\* No invocation yet: no file, no manifest.
MainStopped ==
    /\ fsFiles = <<>> /\ mfExists = FALSE /\ mfEntries = <<>>
    /\ argOnly = NoneS /\ argManifestOnly = FALSE /\ argRows = 5000 /\ argCols = 20
    /\ mainPc = "idle" /\ mainQueue = <<>> /\ mainRan = <<>> /\ mainSaved = {}
    /\ mainExc = NoExc /\ mainOut = <<>> /\ runs = 0 /\ envActed = FALSE
    /\ mfPrev = <<>> /\ prevClean = FALSE /\ dirty = FALSE
MainIdle == fsDir = FALSE /\ MainStopped

SweepInit ==
    /\ swCells \in {<<c, TrailerCell>> : c \in ProbeCells}
    /\ swIdx = 1
    /\ swPc = "sweep"
    /\ swDark = [i \in 1..2 |-> "unset"]
    /\ swLum = [i \in 1..2 |-> FALSE]
    /\ swExc = NoExc
    /\ swPass = 1
    /\ swFirst = <<>>
    /\ thPc = "todo"
    /\ thFont = None
    /\ BuildIdle
    /\ MainIdle

\* Inputs of the builders: which builder runs and, for create_large_file,
\* its rows and cols (the command line's --rows and --cols are any ints).
MaxRows == 3
MaxCols == 5
\* Shapes tall enough to meet a row r with r % 10 = 0 (line 326).
TallShapes == {<<10, 1>>, <<10, 2>>}
\* The date cells of a file of this shape: one per data row and column c
\* from 3 on with c % 3 = 2.
DateCells(rows, cols) ==
    (IF rows > 0 THEN rows ELSE 0) * Cardinality({c \in 3..cols : c % 3 = 2})
\* The shapes built: every date the code can draw is drawn for a date cell,
\* so the shapes are those with at most one of them.
LargeShapes == {sh \in (-1..MaxRows) \X (0..MaxCols) : DateCells(sh[1], sh[2]) <= 1}
BuildInit ==
    /\ \/ bdProg \in {"v3", "v2"} /\ bdRows = 0 /\ bdCols = 0
       \/ bdProg \in {"kitchen", "colors"} /\ bdRows \in RowsSample /\ bdCols \in {20, MaxCols}
       \/ bdProg = "large" /\ \E sh \in LargeShapes : bdRows = sh[1] /\ bdCols = sh[2]
       \/ bdProg = "large" /\ \E sh \in TallShapes : bdRows = sh[1] /\ bdCols = sh[2]
    /\ bdStmts = BuilderStmts(bdProg, bdRows, bdCols)
    /\ bdPc = 1
    /\ bdCells = <<>>
    /\ bdMerged = {}
    /\ bdDone = "building"
    /\ bdFile = <<>>
    /\ bdNames = {}
    /\ bdCaught = NoExc
    /\ bdOut = <<>>
    /\ bdCharts = <<>>
    /\ bdRules = <<>>
    /\ bdBorders = <<>>
    /\ bdSheets = <<>>
    /\ bdLinks = <<>>
    /\ SweepIdle
    /\ MainIdle

BuildNext ==
    DoNewSheet \/ DoSetValue \/ DoSetFont \/ DoSetFill \/ DoSetFormat \/ DoMerge \/ DoSetLink
        \/ DoSetBorder \/ DoAddRule \/ DoAddChart \/ DefineNames \/ DoSweep \/ BuildSave
BuildSpec == BuildInit /\ [][BuildNext]_vars

\* The output directory exists or not when main first runs.
MainInit ==
    /\ fsDir \in BOOLEAN
    /\ MainStopped
    /\ SweepIdle
    /\ BuildIdle
MainNext ==
    \/ MainStart \/ CreateKitchenSink \/ CreateColorsOnly \/ CreateLargeFile
    \/ GeneratorRaises \/ UpdateManifest \/ EnvWrite \/ EnvRemove
MainSpec == MainInit /\ [][MainNext]_vars

\* update_manifest on a directory that holds one spreadsheet, for sizes
\* around 0, 1000 and 1000000 and sizes midway between two tenths.
SizeWindow == 12
SizeInputs ==
    (0..SizeWindow) \cup ((1000 - SizeWindow)..(1000 + SizeWindow))
        \cup ((1000000 - SizeWindow)..(1000000 + SizeWindow))
        \cup {1000 + 50 * k : k \in 1..SizeWindow}
        \cup {999950 - 100 * k : k \in 0..SizeWindow}
        \cup {1000000 + 50000 * k : k \in 1..SizeWindow}
SizeInit ==
    /\ fsDir = TRUE
    /\ \E size \in SizeInputs : fsFiles = Put(<<>>, KitchenName, size)
    /\ mfExists = FALSE /\ mfEntries = <<>>
    /\ argOnly = NoneS /\ argManifestOnly = TRUE /\ argRows = 5000 /\ argCols = 20
    /\ mainPc = "manifest" /\ mainQueue = <<>> /\ mainRan = <<>> /\ mainSaved = {}
    /\ mainExc = NoExc /\ mainOut = <<"Output directory">> /\ runs = 1 /\ envActed = FALSE
    /\ mfPrev = <<>> /\ prevClean = FALSE /\ dirty = TRUE
    /\ SweepIdle
    /\ BuildIdle
SizeNext == UpdateManifest
SizeSpec == SizeInit /\ [][SizeNext]_vars

\* The sweep over two cells of which one may have a font whose colour cannot
\* be read.
FaultFontInputs ==
    {PlainFont(c) : c \in {ColorUnreadable, RgbUnreadable, None, ColorRgb(White6)}}
        \cup {RichFont(c) : c \in {ColorUnreadable, RgbUnreadable}}
FaultCells == {Cell(v, f, font) : v \in {"text", NoneS}, f \in FillInputs, font \in FaultFontInputs}
FaultInit ==
    /\ swCells \in {<<c, TrailerCell>> : c \in FaultCells} \cup {<<TrailerCell, c>> : c \in FaultCells}
    /\ swIdx = 1
    /\ swPc = "sweep"
    /\ swDark = [i \in 1..2 |-> "unset"]
    /\ swLum = [i \in 1..2 |-> FALSE]
    /\ swExc = NoExc
    /\ swPass = 1
    /\ swFirst = <<>>
    /\ thPc = "idle"
    /\ thFont = None
    /\ BuildIdle
    /\ MainIdle
FaultNext == SweepCell \/ SweepSave
FaultSpec == FaultInit /\ [][FaultNext]_vars

\* The sweep over four cells whose fills are one colour written bare and
\* behind each prefix.
LowerSample == {<<"f", "f">>, <<"0", "0">>, <<"8", "0">>, <<"7", "f">>}
PrefixColours == Colours6 \cup {a \o b \o c : a \in LowerSample, b \in LowerSample, c \in LowerSample}
Spellings(c) == <<c, <<"#">> \o c, <<"0", "0">> \o c, <<"F", "F">> \o c>>
PrefixInit ==
    /\ \E c \in PrefixColours :
          swCells = [i \in 1..4 |-> Cell("text", PatternFill(Spellings(c)[i], "solid"),
                                         PlainFont(ColorRgb(White6)))]
    /\ swIdx = 1
    /\ swPc = "sweep"
    /\ swDark = [i \in 1..4 |-> "unset"]
    /\ swLum = [i \in 1..4 |-> FALSE]
    /\ swExc = NoExc
    /\ swPass = 1
    /\ swFirst = <<>>
    /\ thPc = "idle"
    /\ thFont = None
    /\ BuildIdle
    /\ MainIdle
PrefixNext == SweepCell \/ SweepSave
PrefixSpec == PrefixInit /\ [][PrefixNext]_vars

\* The sweep run twice over the probe cells.
TwiceInit ==
    /\ swCells \in {<<c, TrailerCell>> : c \in ProbeCells}
    /\ swIdx = 1
    /\ swPc = "sweep"
    /\ swDark = [i \in 1..2 |-> "unset"]
    /\ swLum = [i \in 1..2 |-> FALSE]
    /\ swExc = NoExc
    /\ swPass = 1
    /\ swFirst = <<>>
    /\ thPc = "idle"
    /\ thFont = None
    /\ BuildIdle
    /\ MainIdle
TwiceNext == SweepCell \/ SweepSave \/ SweepAgain
TwiceSpec == TwiceInit /\ [][TwiceNext]_vars

ContrastNext == SweepCell \/ SweepSave \/ ThemeChoice
ContrastSpec == SweepInit /\ [][ContrastNext]_vars

Init == SweepInit
Next == ContrastNext
Spec == Init /\ [][Next]_vars

(***************************************************************************)
(* Properties of the contrast rule (checked under ContrastSpec).           *)
(***************************************************************************)
Classified(i) == swDark[i] # "unset"
FillText(i) == swCells[i].fill.rgb
HasPatternFill(i) == swCells[i].fill.kind = "pattern"
AllHex(s) == \A k \in 1..Len(s) : s[k] \in HexDigits
IsHex6(s) == Len(s) = 6 /\ AllHex(s)
ByteAt(s, k) == 16 * HexVal(s[k]) + HexVal(s[k + 1])
\* 1000 times the luminance of a six-digit colour, in exact arithmetic.
Lum1000(s) == 299 * ByteAt(s, 1) + 587 * ByteAt(s, 3) + 114 * ByteAt(s, 5)

\* C1: in the v2 sweep a six-hex-digit fill colour that is no white sentinel
\* is classified dark exactly when 299R + 587G + 114B < 128000, else light.
C1_DarkIffLuminanceBelow128 ==
    \A i \in DOMAIN swCells :
        (Classified(i) /\ HasPatternFill(i) /\ IsHex6(FillText(i))
            /\ FillText(i) \notin {White6, white6})
        => (swDark[i] = "dark" <=> Lum1000(FillText(i)) < 128000)

\* C2: a colour whose luminance is exactly 128 is classified light by the
\* v2 sweep, and gets black text from create_colors_only.
C2_Luminance128IsLight ==
    (HasPatternFill(1) /\ IsHex6(FillText(1)) /\ Lum1000(FillText(1)) = 128000)
    => /\ Classified(1) => swDark[1] = "light"
       /\ thPc = "done" => thFont = ColorRgb(Black6)

\* C3: a fill colour value that is one of "#FFFFFF", "#ffffff", "FFFFFF",
\* "ffffff" or None is classified light and the luminance formula is not
\* evaluated for it.
C3_SentinelsAreLight ==
    \A i \in DOMAIN swCells :
        (Classified(i) /\ HasPatternFill(i)
            /\ FillText(i) \in {<<"#", "F", "F", "F", "F", "F", "F">>,
                                <<"#", "f", "f", "f", "f", "f", "f">>,
                                <<"F", "F", "F", "F", "F", "F">>,
                                <<"f", "f", "f", "f", "f", "f">>, None})
        => (swDark[i] = "light" /\ ~swLum[i])

C3_Witness ==
    /\ swPc = "saved"
    /\ FillText(1) = <<"#", "F", "F", "F", "F", "F", "F">>
    /\ swDark[1] = "light"

\* The six characters the sweep parses, and whether one channel fails.
ParsedPart(s) == IF Len(s) >= 6 THEN SubSeq(s, Len(s) - 5, Len(s)) ELSE s
ChannelFails(s) ==
    \E k \in {0, 2, 4} : IntBase16(Slice(ParsedPart(s), k, k + 2)).exc # NoExc

\* C4: for every fill colour text of length 0..MaxColourLen, with or without
\* non-hex characters (other letters, signs, white space, digits of other
\* scripts), the classification never raises; a channel that fails to parse
\* leaves has_dark_bg False, and the sweep goes on to the next cell and the
\* save.
C4_ClassificationNeverRaises ==
    /\ swPc # "raised"
    /\ swExc = NoExc
    /\ \A i \in DOMAIN swCells :
          (Classified(i) /\ HasPatternFill(i) /\ FillText(i) # None
              /\ FillText(i) \notin white_bg_cells /\ FillText(i) # <<>>
              /\ ChannelFails(FillText(i)))
          => (swDark[i] = "light" /\ ~swLum[i])
    /\ swPc = "saved" =>
          \A i \in DOMAIN swCells : swCells[i].value # NoneS => Classified(i)

C4_Witness ==
    /\ swPc = "saved"
    /\ FillText(1) = <<"Z", "Z", "Z", "Z", "Z", "Z">>
    /\ swDark[1] = "light"
    /\ Classified(2)

\* C5: a fill colour text of 1 to 5 hex digits falls back to light, and the
\* luminance formula is never applied to it.
C5_ShortHexFallsBack ==
    \A i \in DOMAIN swCells :
        (Classified(i) /\ HasPatternFill(i) /\ FillText(i) # None
            /\ Len(FillText(i)) \in 1..5 /\ AllHex(FillText(i)))
        => (swDark[i] = "light" /\ ~swLum[i])

\* C6: a cell no fill was set on is treated as light, so white text on it is
\* replaced by black.
C6_UnfilledCellIsLight ==
    \A i \in DOMAIN swCells :
        (Classified(i) /\ ~swCells[i].fill.isSet)
        => (swDark[i] = "light" /\ swCells[i].font.color \notin WhiteFontRgbs)

(***************************************************************************)
(* Properties of the built workbooks (checked under BuildSpec).            *)
(***************************************************************************)
\* The cell's font colour is an rgb text whose colour part is FFFFFF.
IsWhiteFont(k) ==
    /\ k \in DOMAIN bdCells
    /\ bdCells[k].font.color \notin {None, ThemeColor}
    /\ Len(bdCells[k].font.color) >= 6
    /\ LastSix(bdCells[k].font.color) = White6
\* The cell has a solid fill whose colour has luminance below 128.
HasDarkSolidFill(k) ==
    /\ bdCells[k].fill.isSet
    /\ bdCells[k].fill.kind = "pattern"
    /\ bdCells[k].fill.ptype = "solid"
    /\ bdCells[k].fill.rgb # None
    /\ Len(bdCells[k].fill.rgb) >= 6
    /\ AllHex(LastSix(bdCells[k].fill.rgb))
    /\ Lum1000(LastSix(bdCells[k].fill.rgb)) < 128000
NoWhiteOnLight == \A k \in DOMAIN bdCells : IsWhiteFont(k) => HasDarkSolidFill(k)
FillOf(k) == LastSix(bdCells[k].fill.rgb)

\* C7: in the workbook create_kitchen_sink_v3 saves, no cell has a white
\* font unless its solid fill has luminance below 128; the chart header cells
\* and the merged cells A3, A5, E5 of the layout sheet have a white font.
C7_V3NoWhiteOnLight ==
    (bdProg = "v3" /\ bdDone = "saved")
    => /\ NoWhiteOnLight
       /\ \A k \in {<<"Charts", 1, c>> : c \in 1..4}
                 \cup {<<"Layout Features", 3, 1>>, <<"Layout Features", 5, 1>>,
                       <<"Layout Features", 5, 5>>} : IsWhiteFont(k)

\* int(255 * i / 9) for i = 0..9.
GrayLevels == <<0, 28, 56, 85, 113, 141, 170, 198, 226, 255>>

\* C8: in every workbook generate_test_xlsx.py saves, no cell has a white font
\* unless its fill has luminance below 128: the header cells of the large
\* file are white on 4472C4, the grayscale cell i has gray level
\* int(255 * i / 9) and a white font exactly when i < 5, and each of the 18
\* theme-colour cells has a fill and a font that obey the rule.
C8_TestWorkbooksNoWhiteOnLight ==
    (bdProg \in {"kitchen", "colors", "large"} /\ bdDone = "saved")
    => /\ NoWhiteOnLight
       /\ bdProg = "large" =>
             \A c \in 1..bdCols :
                 /\ IsWhiteFont(<<"Large Dataset", 1, c>>)
                 /\ FillOf(<<"Large Dataset", 1, c>>) = <<"4", "4", "7", "2", "C", "4">>
       /\ bdProg = "colors" =>
             /\ \A i \in 0..9 :
                    /\ <<"Colors", 7, i + 1>> \in DOMAIN bdCells
                    /\ \A b \in {1, 3, 5} :
                           ByteAt(FillOf(<<"Colors", 7, i + 1>>), b) = GrayLevels[i + 1]
                    /\ IsWhiteFont(<<"Colors", 7, i + 1>>) <=> i < 5
             /\ \A r \in 9..11, c \in 1..6 :
                    /\ <<"Colors", r, c>> \in DOMAIN bdCells
                    /\ bdCells[<<"Colors", r, c>>].fill.isSet
                    /\ LastSix(bdCells[<<"Colors", r, c>>].font.color) \in {Black6, White6}

C8_Witness ==
    /\ bdProg = "colors"
    /\ bdDone = "saved"
    /\ IsWhiteFont(<<"Colors", 7, 5>>)
    /\ ~IsWhiteFont(<<"Colors", 7, 6>>)
    /\ IsWhiteFont(<<"Colors", 10, 2>>)
    /\ FillOf(<<"Colors", 10, 2>>) = <<"7", "F", "7", "F", "7", "F">>

(***************************************************************************)
(* Properties of main and update_manifest (checked under MainSpec).        *)
(***************************************************************************)
ManifestNames == [i \in 1..Len(mfEntries) |-> mfEntries[i].name]
EndsInXlsx(n) ==
    Len(n) >= 5 /\ \A k \in 1..5 : n[Len(n) - 5 + k] = <<".", "x", "l", "s", "x">>[k]
XlsxPresent == {n \in DOMAIN fsFiles : EndsInXlsx(n)}
\* main has returned normally and nothing touched the directory since.
JustReturned == mainPc = "done" /\ ~dirty

\* C9: when main has returned normally, whatever its arguments and the
\* invocations before it, manifest.json holds exactly one entry per .xlsx
\* file of the output directory, in ascending order of name, and so one for
\* every file this invocation saved.
C9_ManifestListsEveryXlsx ==
    JustReturned
    => /\ mfExists
       /\ \A i \in 1..(Len(mfEntries) - 1) : NameLess(ManifestNames[i], ManifestNames[i + 1])
       /\ Range(ManifestNames) = XlsxPresent
       /\ Len(mfEntries) = Cardinality(XlsxPresent)
       /\ mainSaved \subseteq Range(ManifestNames)
       /\ ~argManifestOnly => mainSaved # {}

C9_Witness ==
    /\ JustReturned
    /\ runs = 2
    /\ Cardinality(mainSaved) = 3
    /\ {<<"Z", "e", "b", "r", "a", ".", "x", "l", "s", "x">>, <<"n", "o", "t", "e", "s", ".", "t", "x", "t">>}
           \subseteq DOMAIN fsFiles
    /\ Len(mfEntries) = 4
    /\ ManifestNames[1] = <<"Z", "e", "b", "r", "a", ".", "x", "l", "s", "x">>

\* C10: update_manifest rewrites the manifest from scratch.  Once it has run
\* and until the directory changes, the manifest is determined by the .xlsx
\* files of the directory alone: one entry per file with that file's size, no
\* entry for a file that is gone, no name twice; and run on a directory that
\* did not change since its last run it leaves the manifest as it was.
C10_ManifestRewrittenFromScratch ==
    (mfExists /\ ~dirty)
    => /\ Range(ManifestNames) = XlsxPresent
       /\ \A i, j \in 1..Len(mfEntries) : i # j => ManifestNames[i] # ManifestNames[j]
       /\ \A i \in 1..Len(mfEntries) :
             mfEntries[i].size = SizeStr(fsFiles[ManifestNames[i]])
       /\ prevClean => mfEntries = mfPrev

C10_Witness ==
    /\ mfExists
    /\ ~dirty
    /\ Len(mfEntries) >= 2
    /\ \E i \in 1..Len(mfPrev) :
          /\ mfPrev[i].name \notin DOMAIN fsFiles
          /\ mfPrev[i].name \notin Range(ManifestNames)

(***************************************************************************)
(* Properties of the size strings (checked under SizeSpec).                *)
(***************************************************************************)
EndsWith(str, suffix) ==
    Len(str) >= Len(suffix) /\ SubSeq(str, Len(str) - Len(suffix) + 1, Len(str)) = suffix
UnitOf(str) ==
    IF EndsWith(str, <<"M", "B">>) THEN "MB"
    ELSE IF EndsWith(str, <<"K", "B">>) THEN "KB"
    ELSE IF EndsWith(str, <<"B">>) THEN "B"
    ELSE "none"
\* The number a text of decimal digits denotes, or -1.
RECURSIVE DecimalValue(_)
DecimalValue(str) ==
    IF str = <<>> \/ \E k \in 1..Len(str) : str[k] \notin Range(Digits) THEN -1
    ELSE IF Len(str) = 1 THEN IndexOf(Digits, str[1]) - 1
    ELSE 10 * DecimalValue(SubSeq(str, 1, Len(str) - 1)) + IndexOf(Digits, str[Len(str)]) - 1
UnitLetters(str) == Cardinality({k \in 1..Len(str) : str[k] \in {"B", "K", "M"}})

\* C11: the size string of a file of s bytes has unit MB when s > 1000000,
\* unit KB when 1000 < s <= 1000000, and is the integer s followed by B when
\* s <= 1000; it carries exactly one unit.
C11_SizeUnitBySize ==
    \A i \in 1..Len(mfEntries) :
        LET s   == fsFiles[mfEntries[i].name]
            str == mfEntries[i].size
        IN  /\ UnitOf(str) = "MB" <=> s > 1000000
            /\ UnitOf(str) = "KB" <=> (1000 < s /\ s <= 1000000)
            /\ UnitOf(str) = "B" <=> s <= 1000
            /\ s <= 1000 => DecimalValue(SubSeq(str, 1, Len(str) - 1)) = s
            /\ UnitLetters(str) = (IF s <= 1000 THEN 1 ELSE 2)

C11_Witness ==
    /\ mainPc = "done"
    /\ Len(mfEntries) = 1
    /\ fsFiles[mfEntries[1].name] = 1000
    /\ mfEntries[1].size = <<"1", "0", "0", "0", "B">>

(***************************************************************************)
(* Properties of main's argument handling (checked under MainSpec).        *)
(***************************************************************************)
MainRunning == mainPc \in {"generate", "manifest"}
MainEnded == mainPc \in {"done", "raised"}

\* C12: in an invocation with --manifest-only, whatever --only, --rows and
\* --cols say, no generator is called and no step of main creates or changes
\* a spreadsheet or the directory; only manifest.json may change.
C12_ManifestOnlyLeavesFiles ==
    /\ [](argManifestOnly /\ (MainRunning \/ MainEnded) => mainRan = <<>> /\ mainSaved = {})
    /\ [][argManifestOnly /\ MainRunning => fsFiles' = fsFiles /\ fsDir' = fsDir]_vars

C12_Witness ==
    /\ argManifestOnly
    /\ mainPc = "done"
    /\ argOnly = "large"
    /\ argRows = -1
    /\ mainRan = <<>>
    /\ DOMAIN fsFiles # {}
    /\ LargeName(-1, 20) \notin DOMAIN fsFiles
    /\ mfEntries # mfPrev

\* The calls the claim names for each --only value.
NamedCalls ==
    IF argOnly = "kitchen" THEN <<"kitchen">>
    ELSE IF argOnly = "large" THEN <<"large">>
    ELSE IF argOnly = "colors" THEN <<"colors">>
    ELSE <<"kitchen", "colors", "large">>

\* C13: without --manifest-only main calls exactly the generator --only
\* names, and with no --only all three, in the order kitchen sink, colors,
\* large file: when it reaches update_manifest it has made exactly these
\* calls, and at any time it has made the first few of them and no other.
C13_OnlySelectsGenerator ==
    ~argManifestOnly
    => /\ mainPc \in {"manifest", "done"} => mainRan = NamedCalls
       /\ Len(mainRan) <= Len(NamedCalls)
       /\ mainRan = SubSeq(NamedCalls, 1, Len(mainRan))

C13_Witness ==
    /\ ~argManifestOnly
    /\ mainPc = "done"
    /\ argOnly = NoneS
    /\ mainRan = <<"kitchen", "colors", "large">>

\* C14: every invocation that writes into the output directory, the one with
\* --manifest-only included, first creates the directory when it is absent:
\* no invocation ends with an exception, and each ends with the directory
\* and the manifest in place.
C14_DirectoryCreatedFirst ==
    /\ mainPc # "raised"
    /\ mainExc = NoExc
    /\ mainPc = "done" => (fsDir /\ mfExists)

(***************************************************************************)
(* Properties of create_large_file's shape (checked under BuildSpec).      *)
(***************************************************************************)
\* The int a decimal text with an optional minus sign denotes.
SignedValue(str) ==
    IF str # <<>> /\ str[1] = "-" THEN 0 - DecimalValue(SubSeq(str, 2, Len(str)))
    ELSE DecimalValue(str)
\* The text between "large_" and ".xlsx", and the place of its "x".
LargeMiddle(name) == SubSeq(name, 7, Len(name) - 5)
CrossAt(str) == CHOOSE k \in 1..Len(str) : str[k] = "x"
LargeCells(rows, cols) ==
    {<<"Large Dataset", r, c>> : r \in 1..(1 + (IF rows > 0 THEN rows ELSE 0)), c \in 1..cols}

\* C15: create_large_file(rows, cols) writes the header row 1 and the data
\* rows 2..rows+1, each over the columns 1..cols and nothing else (for
\* rows <= 0 the header row only), and saves as large_{rows}x{cols}.xlsx; the
\* kitchen-sink and colors workbooks are the same whatever --rows and --cols.
C15_LargeFileShape ==
    bdDone = "saved"
    => /\ bdProg = "large" =>
             /\ DOMAIN bdCells = LargeCells(bdRows, bdCols)
             /\ \A k \in DOMAIN bdCells :
                    (k[2] = 1) <=> (bdCells[k].value.kind = "text" /\ bdCells[k].value.s = "Column")
             /\ \A k \in DOMAIN bdCells : bdCells[k].value.kind # "none"
             /\ SubSeq(bdFile, 1, 6) = <<"l", "a", "r", "g", "e", "_">>
             /\ EndsWith(bdFile, <<".", "x", "l", "s", "x">>)
             /\ LET mid == LargeMiddle(bdFile)
                IN  /\ SignedValue(SubSeq(mid, 1, CrossAt(mid) - 1)) = bdRows
                    /\ SignedValue(SubSeq(mid, CrossAt(mid) + 1, Len(mid))) = bdCols
       /\ bdProg = "kitchen" =>
             /\ bdFile = <<"k", "i", "t", "c", "h", "e", "n", "_", "s", "i", "n", "k", ".", "x", "l", "s", "x">>
             /\ bdStmts = KitchenStmts
             /\ Cardinality(DOMAIN bdCells) = 114
       /\ bdProg = "colors" =>
             /\ bdFile = <<"c", "o", "l", "o", "r", "s", "_", "t", "e", "s", "t", ".", "x", "l", "s", "x">>
             /\ bdStmts = ColorsStmts
             /\ Cardinality(DOMAIN bdCells) = 63

C15_Witness ==
    /\ bdDone = "saved"
    /\ bdProg = "large"
    /\ bdRows = 1
    /\ bdCols = 5
    /\ <<"Large Dataset", 2, 5>> \in DOMAIN bdCells
    /\ bdCells[<<"Large Dataset", 2, 5>>].value.kind = "date"
    /\ bdFile = <<"l", "a", "r", "g", "e", "_", "1", "x", "5", ".", "x", "l", "s", "x">>

\* C16: an exception raised by a generator or by the manifest write ends
\* main: within that invocation no later generator is called,
\* update_manifest does not run after a generator failed, nothing more is
\* printed ("Done!" in particular), and the files the earlier generators of
\* the invocation saved are still there.
C16_FaultPropagates ==
    /\ [](mainExc # NoExc => mainPc = "raised")
    /\ [](mainPc = "raised"
            => /\ "Done!" \notin Range(mainOut)
               /\ "Updated" \notin Range(mainOut)
               /\ mainExc = "OSError" =>
                     (mainQueue # <<>> /\ mainRan \o mainQueue = NamedCalls)
               /\ ~envActed => mainSaved \subseteq DOMAIN fsFiles
               /\ Cardinality(mainSaved) = Len(mainRan))
    /\ [][(mainPc = "raised" /\ runs' = runs)
            => /\ mainPc' = "raised"
               /\ mainRan' = mainRan
               /\ mainOut' = mainOut
               /\ mfEntries' = mfEntries
               /\ mfExists' = mfExists]_vars

C16_Witness ==
    /\ mainPc = "raised"
    /\ mainExc = "OSError"
    /\ runs = 2
    /\ mainRan = <<"kitchen">>
    /\ mainQueue = <<"colors", "large">>
    /\ KitchenName \in DOMAIN fsFiles
    /\ mfExists
    /\ KitchenName \notin Range(ManifestNames)

\* C17: in create_kitchen_sink_v3 a failure of either named-range
\* registration does not leave the function: the builder goes on to the save,
\* and once saved the file is written and the summary printed.
C17_NamedRangeFailureSwallowed ==
    bdProg = "v3"
    => /\ bdDone # "raised"
       /\ bdCaught # NoExc => bdDone \in {"named", "saved"}
       /\ bdDone = "saved" => (bdFile = V3Name /\ bdOut = <<"Created", "Summary">>)

C17_Witness ==
    /\ bdProg = "v3"
    /\ bdDone = "saved"
    /\ bdCaught = "ValueError"
    /\ bdNames = {"TestRange"}
    /\ bdFile = V3Name

\* C18: in the v2 sweep a failure while reading the font's color, or that
\* colour's rgb, does not leave the sweep: the sweep never ends raised, and
\* at the save every cell that has a value was processed.
C18_FontReadFailureSwallowed ==
    /\ swPc # "raised"
    /\ swExc = NoExc
    /\ swPc = "saved" =>
          \A i \in DOMAIN swCells : swCells[i].value # NoneS => Classified(i)

\* C19: for a six-hex-digit colour c the v2 sweep gives the fills c, "#" + c,
\* "00" + c and "FF" + c the same light/dark classification, and the sweep
\* over them ends in the save.
C19_PrefixDoesNotMatter ==
    (/\ Len(swCells) = 4
     /\ IsHex6(FillText(1))
     /\ \A i \in 1..4 : FillText(i) = Spellings(FillText(1))[i])
    => /\ swPc # "raised"
       /\ \A i, j \in 1..4 : (Classified(i) /\ Classified(j)) => swDark[i] = swDark[j]
       /\ swPc = "saved" => \A i \in 1..4 : Classified(i)

C19_Witness ==
    /\ swPc = "saved"
    /\ Len(swCells) = 4
    /\ FillText(1) = <<"8", "0", "8", "0", "8", "0">>
    /\ FillText(2) = <<"#", "8", "0", "8", "0", "8", "0">>
    /\ FillText(3) = <<"0", "0", "8", "0", "8", "0", "8", "0">>
    /\ FillText(4) = <<"F", "F", "8", "0", "8", "0", "8", "0">>
    /\ \A i \in 1..4 : swDark[i] = "dark"

\* What the saved v3 workbook holds: the chart types (class and grouping),
\* the sample cells of sheet "Pattern Fills" a fill was set on, and the
\* sample cells of the border-style list of sheet "Border Styles".
ChartTypes == Range(bdCharts)
FillSamples ==
    {k \in DOMAIN bdCells : k[1] = "Pattern Fills" /\ k[3] = 2 /\ bdCells[k].fill.isSet}
BorderSamples ==
    {k \in DOMAIN bdBorders : k[1] = "Border Styles" /\ k[2] <= Len(border_styles) + 3}

\* The saved v3 workbook has 19 pattern-fill sample cells, one per pattern
\* type, and 13 border sample cells, one per style other than "none".
V3FillsAndBordersAsDeclared ==
    (bdProg = "v3" /\ bdDone = "saved")
    => /\ Cardinality(FillSamples) = 19
       /\ {bdCells[k].fill.ptype : k \in FillSamples}
             = {FillType(pattern_types[i]) : i \in DOMAIN pattern_types}
       /\ Cardinality(BorderSamples) = 13
       /\ {bdBorders[k] : k \in BorderSamples} = Range(border_styles) \ {"none"}
       /\ Cardinality(Range(border_styles) \ {"none"}) = 13

\* C20: the workbook create_kitchen_sink_v3 saves contains 12 chart types,
\* at least 30 conditional-formatting rules, 19 pattern-fill sample cells
\* and 13 border-style sample cells whose style is not "none".
C20_V3ContainsDeclared ==
    (bdProg = "v3" /\ bdDone = "saved")
    => /\ Cardinality(ChartTypes) = 12
       /\ Len(bdRules) >= 30
       /\ Cardinality(FillSamples) = 19
       /\ Cardinality(BorderSamples) = 13

\* C21: once the v2 sweep has ended in the save, every cell that has a value
\* has a font colour that is not None, and a cell whose font colour is one
\* of FFFFFFFF, 00FFFFFF, FFFFFF was classified dark by the sweep.
C21_SweptFontsExplicit ==
    swPc = "saved"
    => \A i \in DOMAIN swCells :
          swCells[i].value # NoneS
          => /\ swCells[i].font.color # None
             /\ swCells[i].font.color \in WhiteFontRgbs => swDark[i] = "dark"

C21_Witness ==
    /\ swPc = "saved"
    /\ swCells[1].value # NoneS
    /\ swCells[1].font.color \in WhiteFontRgbs
    /\ swDark[1] = "dark"
    /\ swCells[2].font.color = ColorRgb(Black6)
    /\ swDark[2] = "light"

\* C22: when the v2 sweep replaces a cell's font, the new font equals the old
\* one in every attribute but the colour (vertical alignment included).
C22_ReplacementKeepsAttributes ==
    [][\A i \in DOMAIN swCells :
          swCells'[i].font # swCells[i].font
          => [swCells'[i].font EXCEPT !.color = swCells[i].font.color] = swCells[i].font]_vars

\* What main prints up to its normal return when every call of the list
\* calls saved its file and update_manifest ran once, after them.
RECURSIVE PrintedBy(_)
PrintedBy(calls) ==
    IF calls = <<>> THEN <<>>
    ELSE GeneratorOutput(Head(calls), argRows) \o <<"Created">> \o PrintedBy(Tail(calls))
OutputOf(calls) == <<"Output directory">> \o PrintedBy(calls) \o <<"Updated", "Done!">>

\* C23: in an invocation without --manifest-only, update_manifest runs at
\* most once and only when every selected generator has saved its file; in
\* an invocation that returns it has run exactly once, after the saves, and
\* the manifest it wrote lists every file the invocation saved.
C23_ManifestOnceAfterGenerators ==
    (~argManifestOnly /\ runs > 0)
    => /\ mainPc = "manifest"
            => (mainRan = NamedCalls /\ mainQueue = <<>>
                  /\ Cardinality(mainSaved) = Len(NamedCalls)
                  /\ mainSaved \subseteq DOMAIN fsFiles)
       /\ mainPc # "done" => "Updated" \notin Range(mainOut)
       /\ mainPc = "done"
            => (/\ mainOut = OutputOf(NamedCalls)
                /\ mainRan = NamedCalls
                /\ ~dirty => (mainSaved \subseteq Range(ManifestNames)
                                /\ mfEntries = ManifestEntries(fsFiles)))

C23_Witness ==
    /\ ~argManifestOnly
    /\ argOnly = NoneS
    /\ runs = 2
    /\ mainPc = "done"
    /\ ~dirty
    /\ mainRan = <<"kitchen", "colors", "large">>
    /\ argRows = 5000
    /\ mainOut = <<"Output directory", "Created", "Created", "Generated", "Generated",
                   "Generated", "Generated", "Generated", "Created", "Updated", "Done!">>
    /\ Cardinality(mainSaved) = 3
    /\ mainSaved \subseteq Range(ManifestNames)
    /\ mfPrev # mfEntries

\* C24: for every six-hex-digit colour the v2 sweep classifies the colour
\* dark exactly when create_colors_only gives it white text, and light
\* exactly when create_colors_only gives it black text.
C24_ContrastRulesAgree ==
    (HasPatternFill(1) /\ IsHex6(FillText(1)) /\ Classified(1) /\ thPc = "done")
    => /\ swDark[1] = "dark" <=> thFont = ColorRgb(White6)
       /\ swDark[1] = "light" <=> thFont = ColorRgb(Black6)

\* C25: a step of the v2 sweep changes nothing of a cell but the colour of
\* its font: value, fill, border, alignment, number format and every other
\* attribute of the font stay as they were.
C25_SweepChangesOnlyFontColour ==
    [][\A i \in DOMAIN swCells :
          [swCells'[i] EXCEPT !.font.color = swCells[i].font.color] = swCells[i]]_vars

\* C26: the v2 sweep run a second time on the workbook its first run left
\* changes no cell's font (nor anything else of a cell), and ends in the
\* save as the first run did.
C26_SweepIdempotent ==
    swPass = 2
    => /\ swCells = swFirst
       /\ swPc # "raised"
       /\ \A i \in DOMAIN swCells : Classified(i) => swCells[i].font = swFirst[i].font

C26_Witness ==
    /\ swPass = 2
    /\ swPc = "saved"
    /\ Classified(1) /\ Classified(2)
    /\ swCells[1].font = RichFont(ColorRgb(Black6))
    /\ swCells[1].font.vertAlign = "superscript"
    /\ swDark[1] = "dark"
    /\ swCells[2].font.color = ColorRgb(Black6)
\* The sheets the links into the workbook point at, and the rows of sheet
\* "Pattern Fills" that hold a pattern-fill sample.
LinkedSheets == {bdLinks[k] : k \in DOMAIN bdLinks} \ {""}
SampleRows == {k[2] : k \in FillSamples}

\* C27: when the v2 or the v3 workbook is saved, every named range and every
\* link into the workbook refers to a sheet of the workbook (v3: TestRange
\* to 'Pattern Fills', ChartData to 'Charts', links to 'Charts' and
\* 'Pattern Fills'; v2: a link to 'Charts'), and TestRange, A4:C22, covers
\* exactly the rows of the 19 pattern-fill samples.
C27_ReferencesResolve ==
    (bdProg \in {"v3", "v2"} /\ bdDone = "saved")
    => /\ \A n \in bdNames : NamedRef(n).sheet \in Range(bdSheets)
       /\ LinkedSheets \subseteq Range(bdSheets)
       /\ LinkedSheets = (IF bdProg = "v3" THEN {"Charts", "Pattern Fills"} ELSE {"Charts"})
       /\ "TestRange" \in bdNames
             => /\ NamedRef("TestRange").sheet = "Pattern Fills"
                /\ NamedRef("TestRange").rng = <<4, 1, 22, 3>>
                /\ NamedRef("TestRange").rng[1]..NamedRef("TestRange").rng[3] = SampleRows
                /\ Cardinality(SampleRows) = 19
                /\ \A k \in DOMAIN bdCells :
                      (k[1] = "Pattern Fills" /\ k[2] \in SampleRows)
                      => k[3] \in NamedRef("TestRange").rng[2]..NamedRef("TestRange").rng[4]
       /\ "ChartData" \in bdNames => NamedRef("ChartData").sheet = "Charts"
C27_Witness ==
    /\ bdProg = "v3"
    /\ bdDone = "saved"
    /\ bdNames = {"TestRange", "ChartData"}
    /\ <<"Comments & Links", 14, 1>> \in DOMAIN bdLinks
    /\ bdLinks[<<"Comments & Links", 14, 1>>] = "Pattern Fills"
    /\ Len(bdSheets) = 14
\* Whether the merged regions m1 and m2, each <<sheet, r1, c1, r2, c2>>,
\* lie on one sheet and have a cell in common.
Overlap(m1, m2) ==
    /\ m1[1] = m2[1]
    /\ m1[2] <= m2[4] /\ m2[2] <= m1[4]
    /\ m1[3] <= m2[5] /\ m2[3] <= m1[5]

\* C28: in every workbook the builders make, no two merged regions of a
\* sheet overlap, and once a region is merged no value is written to a cell
\* of it other than the top-left one (such a write would raise); the saved
\* workbooks hold all the merged regions of the source: 13, 4, 6 and none.
C28_MergedRegionsDisjointAndUnwritten ==
    /\ \A m1, m2 \in bdMerged : m1 # m2 => ~Overlap(m1, m2)
    /\ bdDone # "raised"
    /\ \A k \in DOMAIN bdCells : IsMergedCell(k, bdMerged) => bdCells[k].value = NoVal
    /\ bdDone = "saved"
          => Cardinality(bdMerged) = (IF bdProg = "v3" THEN 13
                                      ELSE IF bdProg = "v2" THEN 4
                                      ELSE IF bdProg = "kitchen" THEN 6 ELSE 0)
\* The v2 workbook is saved with both regions of sheet Styles merged and
\* their top-left cells written after the merge.
C28_Witness ==
    /\ bdProg = "v2"
    /\ bdDone = "saved"
    /\ {<<"Styles", 11, 2, 11, 4>>, <<"Styles", 12, 2, 14, 2>>} \subseteq bdMerged
    /\ <<"Styles", 12, 2>> \in DOMAIN bdCells
    /\ bdCells[<<"Styles", 12, 2>>].value.s = "Vertical merge"
\* The statements of the builder that write the value of the cell at k.
ValueWrites(k) ==
    {i \in DOMAIN bdStmts : bdStmts[i].op = "value" /\ bdStmts[i].row = k[2]
                               /\ bdStmts[i].col = k[3]}

\* C29: in create_large_file every data cell (row r >= 2, column c >= 1) gets
\* one kind of content: the row number r - 1 in column 1, a text in column
\* 2, and from column 3 on a number with a thousands format when c % 3 = 0,
\* a percentage when c % 3 = 1 and a date otherwise; every date has a year
\* in 2020..2024, a month in 1..12 and a day in 1..28, and is a date of the
\* calendar (constructing it never raises).
C29_LargeFileContentKinds ==
    bdProg = "large"
    => /\ bdDone # "raised"
       /\ \A k \in DOMAIN bdCells :
             k[2] >= 2
             => LET v == bdCells[k].value
                    c == k[3]
                    f == bdCells[k].fmt
                IN  /\ c >= 1
                    /\ Cardinality(ValueWrites(k)) = 1
                    /\ c = 1 => v.kind = "int" /\ v.n = k[2] - 1
                    /\ c = 2 => v.kind = "text" /\ v.s = "Row" /\ v.n = k[2] - 1
                    /\ (c >= 3 /\ c % 3 = 0) => v.kind = "uniform" /\ v.n = 10000
                    /\ (c >= 3 /\ c % 3 = 1) => v.kind = "uniform" /\ v.n = 1
                    /\ (c >= 3 /\ c % 3 = 2)
                          => /\ v.kind = "date"
                             /\ v.y \in 2020..2024 /\ v.m \in 1..12 /\ v.d \in 1..28
                             /\ v.d <= DaysInMonth(v.y, v.m)
                    /\ bdDone = "saved"
                          => f = (IF c <= 2 THEN "General"
                                  ELSE IF c % 3 = 0 THEN "#,##0.00"
                                  ELSE IF c % 3 = 1 THEN "0.00%" ELSE "YYYY-MM-DD")
\* A saved file with the five kinds of content in one row, the date the
\* last day of a February.
C29_Witness ==
    /\ bdProg = "large"
    /\ bdDone = "saved"
    /\ bdRows >= 1
    /\ bdCols >= 5
    /\ bdCells[<<"Large Dataset", 2, 1>>].value.n = 1
    /\ bdCells[<<"Large Dataset", 2, 3>>].fmt = "#,##0.00"
    /\ bdCells[<<"Large Dataset", 2, 4>>].fmt = "0.00%"
    /\ bdCells[<<"Large Dataset", 2, 5>>].value.kind = "date"
    /\ bdCells[<<"Large Dataset", 2, 5>>].value.y = 2023
    /\ bdCells[<<"Large Dataset", 2, 5>>].value.m = 2
    /\ bdCells[<<"Large Dataset", 2, 5>>].value.d = 28
====
